---- MODULE Spec2Model ----
(***************************************************************************)
(* Per-wallet transaction coordination of the gateway: the wallet lock     *)
(* registry and nonce cache of chains/ethereum/nonce-manager, the external *)
(* nonce coordination API built on them, and the swap handlers that use    *)
(* them (Pancakeswap execute-quote, Uniswap CLMM execute-swap); and the    *)
(* Raydium execute-swap routes, which share one SDK instance per network.  *)
(*                                                                         *)
(* JavaScript runs one task at a time and a task gives way only at an      *)
(* await, so every action below is the synchronous stretch of code between *)
(* two awaits of one handler.                                              *)
(***************************************************************************)
EXTENDS Integers, Sequences, FiniteSets, TLC

(* ------------------------------ bounds --------------------------------- *)
\* Number of concurrent requests (each runs one operation).
NumTasks == 3
\* The clock advances at most this many times.
MaxTicks == 2
\* The chain's pending transaction count grows at most to this value.
MaxPending == 1
\* the most getNextNonce calls followed in one serial run
MaxCalls == 6
\* steps of the clock followed in Spec
MaxLeaseTicks == 1
\* concurrent requests followed in SpecNonce and in SpecSwap
NumRequests == 2

(* ------------------------- program constants --------------------------- *)
MAX_NONCE_GAP == 5
MAX_NONCE_CACHE_AGE_MS == 120000
DEFAULT_LOCK_TTL_MS == 60000
CLEANUP_INTERVAL_MS == 10000

\* One step of the clock. It is longer than CLEANUP_INTERVAL_MS, so the
\* reaper's timer fires within every step of the clock (see Clock).
TickMs == DEFAULT_LOCK_TTL_MS

Tasks == 1..NumTasks
Requests == 1..NumRequests

(* ------------------------------- keys ---------------------------------- *)
\* scope?: string  -- the value of an omitted scope argument
NoScope == "undefined"
ScopeInputs == {NoScope, "default", "bsc"}
\* The scope arguments of the callers of the nonce manager's API (Spec), and
\* the network of the swap requests (SpecSwap).
ApiScopes == {NoScope, "default"}
SwapNetworks == {"bsc"}
AddrInputs == {"0xAB", "0xab"}

toLowerCase(a) == IF a = "0xAB" THEN "0xab" ELSE a

\* scope ?? 'default'
EffectiveScope(scope) == IF scope = NoScope THEN "default" ELSE scope

\* Faulty variant: one key per address, whatever the scope.
buildKeyScopeless(scope, address) == <<"default", toLowerCase(address)>>

\* `${scope ?? 'default'}:${address.toLowerCase()}`
buildKey(scope, address) ==
    <<IF scope = NoScope THEN "default" ELSE scope, toLowerCase(address)>>

Keys == {buildKey(s, a) : s \in ScopeInputs, a \in AddrInputs}

\* The Uniswap CLMM handler keeps a lock map of its own, keyed by the
\* lowercased address alone.  Both maps are modelled by one function whose
\* domain is the disjoint union of their keys.
clmmKey(address) == <<"uniswap-clmm-walletLocks", toLowerCase(address)>>
ClmmKeys == {clmmKey(a) : a \in AddrInputs}
LockKeys == Keys \cup ClmmKeys

(* ------------------------------ promises ------------------------------- *)
\* Promise.resolve()
ResolvedPromise == [kind |-> "resolved", id |-> 0]
\* the i-th `next` promise made for a key; releaseNext resolves it
NextPromise(i) == [kind |-> "next", id |-> i]
\* previous.then(() => next_i), the promise stored in walletLocks
ThenPromise(i) == [kind |-> "then", id |-> i]
\* walletLocks.get(key) === undefined
NoEntry == [kind |-> "none", id |-> 0]

NoNonce == [nextNonce |-> -1, updatedAt |-> -1]

(* ------------------------ Raydium: values ------------------------------- *)
RaydiumNetworks == {"mainnet-beta"}
Wallets == {"walletA", "walletB"}
\* private owner?: Keypair -- no owner set
NoOwner == "undefined"
\* poolAddress: '' or omitted
NoPool == ""
PoolInputs == {NoPool, "clmmPool", "ammPool", "noSuchPool"}
\* poolInfo.programId of the pool that getPoolfromAPI finds; "none" when it
\* finds no pool
ProgramOf(pool) ==
    CASE pool = "clmmPool" -> "clmm"
      [] pool = "ammPool" -> "amm"
      [] OTHER -> "none"
isValidClmm(programId) == programId = "clmm"
TokenInputs == {"SOL", "FOO"}
\* solana.getToken(symbol) finds the token
getToken(symbol) == symbol = "SOL"

\* slippagePct?: number -- omitted
NoSlippage == -1
SlippageInputs == {NoSlippage, 0, 1, 150}
\* RaydiumConfig.config.slippagePct
RaydiumConfigSlippagePct == 1

\* An error: statusCode 0 stands for a plain Error, which has none; the
\* message is the sequence of its words.
NoError == [statusCode |-> -1, message |-> <<>>]
PlainError(message) == [statusCode |-> 0, message |-> message]
badRequest(message) == [statusCode |-> 400, message |-> message]
notFound(message) == [statusCode |-> 404, message |-> message]
serviceUnavailable(message) == [statusCode |-> 503, message |-> message]
internalServerError(message) == [statusCode |-> 500, message |-> message]
Ok == [statusCode |-> 200, message |-> <<>>]

\* 'Token not found: {}'
TokenNotFound(symbol) == <<"Token", "not", "found", ":", symbol>>
\* 'Pool not found: {}'
PoolNotFound(pool) == <<"Pool", "not", "found", ":", pool>>
\* `No ${type} pool found for ${base}-${quote} on Raydium`
NoPoolFound(type, symbol) ==
    <<"No", type, "pool", "found", "for", symbol, "on", "Raydium">>
\* new Error('Not enough tick data for quote')
NotEnoughTickData == <<"Not", "enough", "tick", "data", "for", "quote">>

\* String.prototype.toLowerCase, word by word
lowerCaseWord(w) ==
    CASE w = "Token" -> "token"
      [] w = "Pool" -> "pool"
      [] w = "No" -> "no"
      [] w = "Not" -> "not"
      [] w = "AMM" -> "amm"
      [] w = "CLMM" -> "clmm"
      [] w = "Raydium" -> "raydium"
      [] w = "SOL" -> "sol"
      [] w = "FOO" -> "foo"
      [] w = "clmmPool" -> "clmmpool"
      [] w = "ammPool" -> "ammpool"
      [] w = "noSuchPool" -> "nosuchpool"
      [] OTHER -> w
lowerCase(message) == [i \in DOMAIN message |-> lowerCaseWord(message[i])]

\* msg.includes(pattern), on words
includes(msg, pattern) ==
    \E i \in 1..(Len(msg) - Len(pattern) + 1) :
        SubSeq(msg, i, i + Len(pattern) - 1) = pattern

\* mapSwapError(fastify, error, context): the error the route throws
mapSwapError(error) ==
    LET msg == lowerCase(error.message) IN
    IF \/ includes(msg, <<"insufficient", "funds">>)
       \/ includes(msg, <<"custom", "program", "error", ":", "0x1">>)
    THEN badRequest(<<"Swap", "failed", ":", "insufficient", "funds">>)
    ELSE IF \/ includes(msg, <<"slippage">>)
            \/ includes(msg, <<"price", "limit">>)
            \/ includes(msg, <<"liquidity">>)
    THEN badRequest(<<"Swap", "failed", ":", "slippage", "or", "liquidity",
                      "too", "low">>)
    ELSE IF includes(msg, <<"blockhash">>) \/ includes(msg, <<"expired">>)
    THEN serviceUnavailable(<<"Swap", "failed", ":", "transaction", "expired",
                              ",", "try", "again">>)
    ELSE IF includes(msg, <<"pool", "not", "found">>)
    THEN notFound(<<"Swap", "failed", ":", "pool", "not", "found">>)
    ELSE internalServerError(<<"Swap", "execution", "failed">>)

\* Numbers with a fraction are kept in hundredths: slippagePct / 100 of a whole
\* slippagePct is slippagePct hundredths.
\* new BN(number).toNumber() for 0 <= number < 0x4000000: bn.js keeps
\* number & 0x3ffffff, the integer part.
BNtoNumber(hundredths) == hundredths \div 100

\* slippagePct === undefined || slippagePct === null ? config : Number(slippagePct)
slippagePctEffective(slippagePct) ==
    IF slippagePct = NoSlippage THEN RaydiumConfigSlippagePct ELSE slippagePct

\* effectiveSlippageNumber of getSwapQuote, the slippage given to
\* PoolUtils.computeAmountOutFormat and computeAmountIn
effectiveSlippageNumber(slippagePct) ==
    BNtoNumber(slippagePctEffective(slippagePct))

IdleSwap ==
    [pc |-> "idle", endpoint |-> "none", network |-> "none", wallet |-> NoOwner,
     baseToken |-> "none", pool |-> NoPool, clmmRuns |-> 0, ammRuns |-> 0,
     sent |-> 0, txOwner |-> NoOwner, slippagePct |-> NoSlippage,
     slippage |-> NoSlippage, error |-> NoError, reply |-> NoError]

VARIABLES
    now,            \* Date.now()
    pending,        \* provider.getTransactionCount(address, 'pending') per key
    nonceState,     \* Map key -> {nextNonce, updatedAt}; NoNonce when absent
    walletLocks,    \* Map key -> Promise (both lock maps)
    chainPrev,      \* per key, for the i-th acquire: the promise it awaits
    resolved,       \* per key: the `next` promises whose releaseNext was called
    externalLocks,  \* Map lockId -> ExternalLockInfo, in insertion order
    quoteCache,     \* quote ids held by the quote cache
    task,           \* per request: where it stands and its local variables
    grantOrder,     \* history: per key, the acquires in the order they were granted
    run,            \* history: per key, the current serial run of getNextNonce
    reaped,         \* history: the lockIds removed by cleanupExpiredLocks
    lastOp,         \* history: per key, the latest operation on its nonce cache
    sdkOwner,       \* per network: the owner the Raydium instance's SDK was loaded with
    swap            \* per Raydium execute-swap request: where it stands

vars == <<now, pending, nonceState, walletLocks, chainPrev, resolved,
          externalLocks, quoteCache, task, grantOrder, run, reaped, lastOp,
          sdkOwner, swap>>

QuoteIds == {"q1"}

\* pc: where the request stands; key: its wallet key; tk: the acquire it waits
\* for or holds in the nonce manager; tk0: the same in the Uniswap route's map; tks: every acquire it made, as <<key, number>> (history);
\* nonce0: the nonce of its approval; nonce: the nonce of its main
\* transaction; result: how it ended.
IdleTask == [pc |-> "idle", op |-> "none", key |-> <<"", "">>, tk |-> 0, tk0 |-> 0,
             tks |-> {}, nonce0 |-> -1, nonce |-> -1, qid |-> "", hw |-> FALSE,
             lockId |-> <<>>, scope |-> "", result |-> "none",
             approval |-> "none"]

\* history: the serial run of getNextNonce calls of a key that started on an
\* absent cache entry: the chain's pending count it started with, the values
\* returned so far, and whether some call came MAX_NONCE_CACHE_AGE_MS or more
\* after the one before.  No run: vals is empty.
NoRun == [p |-> -1, vals |-> <<>>, slow |-> FALSE]

\* history: the latest operation on the nonce cache of a key, when it is a
\* direct getNextNonce ("get"), an acquireNonceWithLock ("acquire") or the
\* release of the lease that acquire handed out ("rollback", "commit"): the
\* nonce handed out and what the call found (see NonceCall).  Any other
\* operation: "other".
NoOp == [kind |-> "other", nonce |-> -1, p |-> -1, cached |-> -1, old |-> FALSE]

Init ==
    /\ now = 0
    /\ pending = [k \in Keys |-> 0]
    /\ nonceState = [k \in Keys |-> NoNonce]
    /\ walletLocks = [k \in LockKeys |-> NoEntry]
    /\ chainPrev = [k \in LockKeys |-> <<>>]
    /\ resolved = [k \in LockKeys |-> {}]
    /\ externalLocks = <<>>
    /\ quoteCache = QuoteIds
    /\ task = [t \in Tasks |-> IdleTask]
    /\ grantOrder = [k \in LockKeys |-> <<>>]
    /\ run = [k \in Keys |-> NoRun]
    /\ reaped = {}
    /\ lastOp = [k \in Keys |-> NoOp]
    /\ sdkOwner = [n \in RaydiumNetworks |-> NoOwner]
    /\ swap = [r \in Requests |-> IdleSwap]

(* --------------------------- wallet lock ------------------------------- *)
\* The acquires of k that were granted and have not released.
Holders(k) == {grantOrder[k][i] : i \in DOMAIN grantOrder[k]} \ resolved[k]

\* Faulty variant: the caller never chains behind the promise in the map.
PreviousOfUnchained(k) == ResolvedPromise

\* const previous = walletLocks.get(key) ?? Promise.resolve();
PreviousOf(k) ==
    IF walletLocks[k] = NoEntry THEN ResolvedPromise ELSE walletLocks[k]

\* Whether promise p of key k is fulfilled.
RECURSIVE Settled(_, _)
Settled(k, p) ==
    CASE p.kind = "resolved" -> TRUE
      [] p.kind = "next" -> p.id \in resolved[k]
      [] p.kind = "then" -> /\ Settled(k, chainPrev[k][p.id])
                            /\ p.id \in resolved[k]
      [] OTHER -> FALSE

\* The synchronous part of acquireWalletLock, up to `await previous`:
\* the caller becomes the next acquire of key k.
AcquireCall(k) ==
    /\ chainPrev' = [chainPrev EXCEPT ![k] = Append(@, PreviousOf(k))]
    /\ walletLocks' = [walletLocks EXCEPT ![k] = ThenPromise(Len(chainPrev[k]) + 1)]

NewTicket(k) == Len(chainPrev[k]) + 1

\* Faulty variant: a lock without a queue, taken by whoever finds it free.
CanGrantBarging(k, i) == Holders(k) = {}

\* `await previous` of the i-th acquire of k returns.
CanGrant(k, i) == Settled(k, chainPrev[k][i])

\* The release handle of the i-th acquire of k:
\*   releaseNext(); if (walletLocks.get(key) === next) walletLocks.delete(key);
\* Faulty variant: the handle does nothing.
ReleaseHandleNever(k, i) == UNCHANGED <<resolved, walletLocks>>

\* Faulty variant: the handle frees whoever holds the lock when it is called.
ReleaseHandleOfHolder(k, i) ==
    /\ resolved' = [resolved EXCEPT ![k] = @ \cup {i} \cup Holders(k)]
    /\ UNCHANGED walletLocks

ReleaseHandle(k, i) ==
    /\ resolved' = [resolved EXCEPT ![k] = @ \cup {i}]
    /\ walletLocks' = IF walletLocks[k] = NextPromise(i)
                         THEN [walletLocks EXCEPT ![k] = NoEntry]
                         ELSE walletLocks

(* ---------------------------- nonce cache ------------------------------ *)
\* Faulty variant: the second argument wins.
MaxSecond(a, b) == b

Max(a, b) == IF a >= b THEN a ELSE b

\* Faulty variant: no reset, the larger of the two counts is handed out.
NextNonceValueNoReset(k, pendingNonce) ==
    IF nonceState[k] = NoNonce THEN pendingNonce
    ELSE IF pendingNonce >= nonceState[k].nextNonce THEN pendingNonce
    ELSE nonceState[k].nextNonce

\* Faulty variant: the cache is ignored, the chain's count is handed out.
NextNonceValueUncached(k, pendingNonce) == pendingNonce

\* Faulty variant: an entry of the cache is handed out whatever the chain says.
NextNonceValueCachedFirst(k, pendingNonce) ==
    IF nonceState[k] = NoNonce THEN pendingNonce ELSE nonceState[k].nextNonce

\* getNextNonce after its RPC returned pendingNonce: the nonce it returns.
NextNonceValue(k, pendingNonce) ==
    LET current == nonceState[k]
        cachedNonce == IF current = NoNonce THEN 0 ELSE current.nextNonce
    IN  IF /\ cachedNonce > pendingNonce
           /\ current # NoNonce
           /\ \/ cachedNonce - pendingNonce >= MAX_NONCE_GAP
              \/ now - current.updatedAt >= MAX_NONCE_CACHE_AGE_MS
        THEN pendingNonce
        ELSE Max(pendingNonce, cachedNonce)

\* getNextNonce: what it stores in nonceState.
GetNextNonce(k, pendingNonce) ==
    /\ nonceState' = [nonceState EXCEPT ![k] =
          [nextNonce |-> NextNonceValue(k, pendingNonce) + 1, updatedAt |-> now]]
    /\ run' = [run EXCEPT ![k] =
          IF nonceState[k] = NoNonce
          THEN [p |-> pendingNonce, vals |-> <<NextNonceValue(k, pendingNonce)>>,
                slow |-> FALSE]
          ELSE IF @.vals # <<>> /\ @.p = pendingNonce
          THEN [@ EXCEPT !.vals = Append(@, NextNonceValue(k, pendingNonce)),
                         !.slow = @ \/ now - nonceState[k].updatedAt
                                          >= MAX_NONCE_CACHE_AGE_MS]
          ELSE NoRun]

\* Faulty variant: a release that leaves the cache alone.
RolledBackNever(ns, lock) == ns

\* Faulty variant: the rollback drops the entry.
RolledBackDropped(ns, lock) == [ns EXCEPT ![lock.key] = NoNonce]

\* The rollback of releaseNonceByLockId and of cleanupExpiredLocks.
RolledBack(ns, lock) ==
    IF ns[lock.key] # NoNonce /\ ns[lock.key].nextNonce > lock.nonce
    THEN [ns EXCEPT ![lock.key] = [nextNonce |-> lock.nonce, updatedAt |-> now]]
    ELSE ns

\* What a getNextNonce call saw and returned: the nonce it returned, the
\* pending count p, the cached next nonce (-1: no entry), and whether the
\* entry was MAX_NONCE_CACHE_AGE_MS old or older.
NonceCall(kind, k) ==
    [kind |-> kind, nonce |-> NextNonceValue(k, pending[k]), p |-> pending[k],
     cached |-> nonceState[k].nextNonce,
     old |-> /\ nonceState[k] # NoNonce
             /\ now - nonceState[k].updatedAt >= MAX_NONCE_CACHE_AGE_MS]

\* An operation on the nonce cache of k that is no lease's acquire or release.
OtherOp(k) == lastOp' = [lastOp EXCEPT ![k] = NoOp]

\* A cache entry that is rolled back or dropped ends the serial run of its key.
RunAfter(ns) == [k \in Keys |-> IF ns[k] = nonceState[k] THEN run[k] ELSE NoRun]

(* ------------------------------ requests ------------------------------- *)
\* Requests are interchangeable: they are numbered in the order they arrive.
CanStart(t) ==
    /\ task[t].pc = "idle"
    /\ \A u \in Tasks : u < t => task[u].pc # "idle"

\* A finished request keeps its operation, its key and its outcome.
Finished(tsk, result) ==
    [IdleTask EXCEPT !.pc = "done", !.op = tsk.op, !.key = tsk.key,
                     !.tks = tsk.tks, !.qid = tsk.qid, !.result = result]

\* getNextNonce called on the exported function itself, without the wallet
\* lock, one call after the other (as the unit tests of the module do).
DirectGetNextNonce(scope, address) ==
    LET k == buildKey(scope, address) IN
    /\ Len(run[k].vals) < MaxCalls
    /\ GetNextNonce(k, pending[k])
    /\ lastOp' = [lastOp EXCEPT ![k] = NonceCall("get", k)]
    /\ UNCHANGED <<now, pending, walletLocks, chainPrev, resolved, externalLocks,
                   quoteCache, task, grantOrder, reaped,
                   sdkOwner, swap>>

(* --------------------- internal holders of the lock -------------------- *)
\* A handler calls acquireWalletLock(address, scope).
StartInternal(t, scope, address) ==
    LET k == buildKey(scope, address) IN
    /\ CanStart(t)
    /\ AcquireCall(k)
    /\ task' = [task EXCEPT ![t] = [@ EXCEPT !.pc = "iWait", !.op = "internal",
                                              !.key = k, !.tk = NewTicket(k),
                                              !.tks = @ \cup {<<k, NewTicket(k)>>}]]
    /\ UNCHANGED <<now, pending, nonceState, resolved, externalLocks,
                   quoteCache, grantOrder, run, reaped, lastOp,
                   sdkOwner, swap>>

InternalGranted(t) ==
    /\ task[t].pc = "iWait"
    /\ CanGrant(task[t].key, task[t].tk)
    /\ task' = [task EXCEPT ![t].pc = "iHeld"]
    /\ grantOrder' = [grantOrder EXCEPT ![task[t].key] = Append(@, task[t].tk)]
    /\ UNCHANGED <<now, pending, nonceState, walletLocks, chainPrev, resolved,
                   externalLocks, quoteCache, run, reaped, lastOp,
                   sdkOwner, swap>>

\* The holder asks for a nonce under its lock.
InternalGetNonce(t) ==
    LET k == task[t].key IN
    /\ task[t].pc = "iHeld"
    /\ GetNextNonce(k, pending[k])
    /\ OtherOp(k)
    /\ task' = [task EXCEPT ![t] = [@ EXCEPT !.pc = "iNonce",
                                              !.nonce = NextNonceValue(k, pending[k])]]
    /\ UNCHANGED <<now, pending, walletLocks, chainPrev, resolved, externalLocks,
                   quoteCache, grantOrder, reaped,
                   sdkOwner, swap>>

InternalRelease(t) ==
    /\ task[t].pc \in {"iHeld", "iNonce"}
    /\ ReleaseHandle(task[t].key, task[t].tk)
    /\ task' = [task EXCEPT ![t] = Finished(@, "ok")]
    /\ UNCHANGED <<now, pending, nonceState, chainPrev, externalLocks,
                   quoteCache, grantOrder, run, reaped, lastOp,
                   sdkOwner, swap>>

\* The caller of acquireWalletLock calls the release handle it got once more,
\* after its request is over.
InternalReleaseAgain(t) ==
    /\ task[t].pc = "done"
    /\ task[t].op = "internal"
    /\ ReleaseHandle(task[t].key, CHOOSE i \in 1..2 * NumTasks :
                                      <<task[t].key, i>> \in task[t].tks)
    /\ UNCHANGED <<now, pending, nonceState, chainPrev, externalLocks,
                   quoteCache, task, grantOrder, run, reaped, lastOp,
                   sdkOwner, swap>>

(* ----------------------- external nonce leases ------------------------- *)
TtlInputs == {DEFAULT_LOCK_TTL_MS}

\* randomUUID(): a lockId no other call gets.  The model names it after the
\* acquire it belongs to.
NewLockId(k) == <<k, NewTicket(k)>>
\* Every lockId a caller of /nonce/release may send: those handed out, and
\* others that name no lease.
LockIds == {<<k, i>> : k \in Keys, i \in 1..2 * NumTasks}

\* POST /nonce/acquire -> acquireNonceWithLock, up to `await acquireWalletLock`.
StartLease(t, scope, address) ==
    LET k == buildKey(scope, address) IN
    /\ CanStart(t)
    /\ AcquireCall(k)
    /\ task' = [task EXCEPT ![t] = [@ EXCEPT !.pc = "lWait", !.op = "lease",
                                              !.key = k, !.tk = NewTicket(k),
                                              !.tks = @ \cup {<<k, NewTicket(k)>>},
                                              !.lockId = NewLockId(k),
                                              !.scope = scope]]
    /\ UNCHANGED <<now, pending, nonceState, resolved, externalLocks,
                   quoteCache, grantOrder, run, reaped, lastOp,
                   sdkOwner, swap>>

LeaseGranted(t) ==
    /\ task[t].pc = "lWait"
    /\ CanGrant(task[t].key, task[t].tk)
    /\ task' = [task EXCEPT ![t].pc = "lHeld"]
    /\ grantOrder' = [grantOrder EXCEPT ![task[t].key] = Append(@, task[t].tk)]
    /\ UNCHANGED <<now, pending, nonceState, walletLocks, chainPrev, resolved,
                   externalLocks, quoteCache, run, reaped, lastOp,
                   sdkOwner, swap>>

\* getNextNonce returns; the lease is stored and handed to the caller.
LeaseStored(t, ttlMs) ==
    LET k == task[t].key
        nonce == NextNonceValue(k, pending[k])
    IN
    /\ task[t].pc = "lHeld"
    /\ GetNextNonce(k, pending[k])
    /\ lastOp' = [lastOp EXCEPT ![k] = NonceCall("acquire", k)]
    /\ externalLocks' = Append(externalLocks,
            [lockId |-> task[t].lockId, key |-> k, address |-> k[2],
             scope |-> task[t].scope, nonce |-> nonce,
             expiresAt |-> now + ttlMs, release |-> task[t].tk])
    /\ task' = [task EXCEPT ![t] = Finished(@, "ok")]
    /\ UNCHANGED <<now, pending, walletLocks, chainPrev, resolved,
                   quoteCache, grantOrder, reaped,
                   sdkOwner, swap>>

\* provider.getTransactionCount rejects: getNextNonce throws, and so does
\* acquireNonceWithLock; the route answers 500.
LeaseNonceFails(t) ==
    /\ task[t].pc = "lHeld"
    /\ task' = [task EXCEPT ![t] = Finished(@, "error")]
    /\ UNCHANGED <<now, pending, nonceState, walletLocks, chainPrev, resolved,
                   externalLocks, quoteCache, grantOrder, run, reaped, lastOp,
                   sdkOwner, swap>>

IndexOfLock(lockId) ==
    {i \in DOMAIN externalLocks : externalLocks[i].lockId = lockId}

\* Faulty variant: the lease stays in the map.
RemoveAtNever(s, i) == s

RemoveAt(s, i) == SubSeq(s, 1, i - 1) \o SubSeq(s, i + 1, Len(s))

\* Faulty variant: the cache is rolled back whatever transactionSent says.
ReleaseNonceByLockIdRollsBack(lockId, transactionSent) ==
    /\ IndexOfLock(lockId) # {}
    /\ LET i == CHOOSE j \in IndexOfLock(lockId) : TRUE
           lockInfo == externalLocks[i]
       IN /\ nonceState' = RolledBack(nonceState, lockInfo)
          /\ run' = RunAfter(RolledBack(nonceState, lockInfo))
          /\ ReleaseHandle(lockInfo.key, lockInfo.release)
          /\ externalLocks' = RemoveAt(externalLocks, i)
          /\ lastOp' = [lastOp EXCEPT ![lockInfo.key] =
                IF @.kind = "acquire" /\ @.nonce = lockInfo.nonce
                THEN [@ EXCEPT !.kind = IF transactionSent THEN "commit"
                                        ELSE "rollback"]
                ELSE NoOp]
    /\ UNCHANGED <<now, pending, chainPrev, quoteCache, task, grantOrder, reaped,
                   sdkOwner, swap>>

\* Faulty variant: the lease is deleted and its wallet lock is kept.
ReleaseNonceByLockIdKeepsLock(lockId, transactionSent) ==
    /\ IndexOfLock(lockId) # {}
    /\ LET i == CHOOSE j \in IndexOfLock(lockId) : TRUE
           lockInfo == externalLocks[i]
       IN /\ nonceState' = IF transactionSent THEN nonceState
                           ELSE RolledBack(nonceState, lockInfo)
          /\ run' = IF transactionSent THEN run
                    ELSE RunAfter(RolledBack(nonceState, lockInfo))
          /\ externalLocks' = RemoveAt(externalLocks, i)
          /\ lastOp' = [lastOp EXCEPT ![lockInfo.key] = NoOp]
    /\ UNCHANGED <<now, pending, walletLocks, chainPrev, resolved, quoteCache,
                   task, grantOrder, reaped,
                   sdkOwner, swap>>

\* POST /nonce/release -> releaseNonceByLockId(lockId, transactionSent)
ReleaseNonceByLockId(lockId, transactionSent) ==
    /\ IndexOfLock(lockId) # {}
    /\ LET i == CHOOSE j \in IndexOfLock(lockId) : TRUE
           lockInfo == externalLocks[i]
       IN /\ nonceState' = IF transactionSent THEN nonceState
                           ELSE RolledBack(nonceState, lockInfo)
          /\ run' = IF transactionSent THEN run
                    ELSE RunAfter(RolledBack(nonceState, lockInfo))
          /\ ReleaseHandle(lockInfo.key, lockInfo.release)
          /\ externalLocks' = RemoveAt(externalLocks, i)
          /\ lastOp' = [lastOp EXCEPT ![lockInfo.key] =
                IF @.kind = "acquire" /\ @.nonce = lockInfo.nonce
                THEN [@ EXCEPT !.kind = IF transactionSent THEN "commit"
                                        ELSE "rollback"]
                ELSE NoOp]
    /\ UNCHANGED <<now, pending, chainPrev, quoteCache, task, grantOrder, reaped,
                   sdkOwner, swap>>

\* releaseNonceByLockId with a lockId that is not in the map: returns false.
ReleaseUnknownLockId(lockId, transactionSent) ==
    /\ IndexOfLock(lockId) = {}
    /\ UNCHANGED vars

\* Faulty variant: every listed lease counts as active.
getExternalLocksStatusAllActive ==
    [activeLocks |-> Len(externalLocks),
     locks |-> [i \in DOMAIN externalLocks |->
                  [lockId |-> externalLocks[i].lockId,
                   address |-> externalLocks[i].address,
                   scope |-> externalLocks[i].scope,
                   nonce |-> externalLocks[i].nonce,
                   expiresAt |-> externalLocks[i].expiresAt,
                   isExpired |-> externalLocks[i].expiresAt <= now]]]

\* GET /nonce/status -> getExternalLocksStatus()
getExternalLocksStatus ==
    LET locks == [i \in DOMAIN externalLocks |->
                    [lockId |-> externalLocks[i].lockId,
                     address |-> externalLocks[i].address,
                     scope |-> externalLocks[i].scope,
                     nonce |-> externalLocks[i].nonce,
                     expiresAt |-> externalLocks[i].expiresAt,
                     isExpired |-> externalLocks[i].expiresAt <= now]]
    IN  [activeLocks |-> Cardinality({i \in DOMAIN locks : ~locks[i].isExpired}),
         locks |-> locks]

\* Faulty variant: every lease counts as expired.
ExpiredAlways(lockInfo) == TRUE

\* now >= lockInfo.expiresAt
Expired(lockInfo) == lockInfo.expiresAt <= now

\* The loop of cleanupExpiredLocks over externalLocks.entries(), from entry i on:
\* st = [ns: nonceState, res: resolved, wl: walletLocks, keep: entries kept].
RECURSIVE CleanupFrom(_, _)
CleanupFrom(i, st) ==
    IF i > Len(externalLocks) THEN st
    ELSE LET lockInfo == externalLocks[i]
             k == lockInfo.key
         IN  IF Expired(lockInfo)
             THEN CleanupFrom(i + 1,
                    [ns |-> RolledBack(st.ns, lockInfo),
                     res |-> [st.res EXCEPT ![k] = @ \cup {lockInfo.release}],
                     wl |-> IF st.wl[k] = NextPromise(lockInfo.release)
                               THEN [st.wl EXCEPT ![k] = NoEntry] ELSE st.wl,
                     keep |-> st.keep])
             ELSE CleanupFrom(i + 1, [st EXCEPT !.keep = Append(@, lockInfo)])

\* Faulty variant: the reaper releases the locks and keeps the leases in the map.
CleanupExpiredLocksKeepsLeases ==
    LET st == CleanupFrom(1, [ns |-> nonceState, res |-> resolved,
                              wl |-> walletLocks, keep |-> <<>>])
    IN  /\ \E i \in DOMAIN externalLocks : Expired(externalLocks[i])
        /\ nonceState' = st.ns
        /\ run' = RunAfter(st.ns)
        /\ resolved' = st.res
        /\ walletLocks' = st.wl
        /\ lastOp' = [k \in Keys |-> NoOp]
        /\ reaped' = reaped \cup {externalLocks[i].lockId : i \in
                                     {j \in DOMAIN externalLocks : Expired(externalLocks[j])}}
        /\ UNCHANGED <<now, pending, chainPrev, externalLocks, quoteCache, task,
                       grantOrder,
                   sdkOwner, swap>>

\* cleanupExpiredLocks(), run by the interval timer of startExternalLockCleanup.
CleanupExpiredLocks ==
    LET st == CleanupFrom(1, [ns |-> nonceState, res |-> resolved,
                              wl |-> walletLocks, keep |-> <<>>])
    IN  /\ \E i \in DOMAIN externalLocks : Expired(externalLocks[i])
        /\ nonceState' = st.ns
        /\ run' = RunAfter(st.ns)
        /\ resolved' = st.res
        /\ walletLocks' = st.wl
        /\ externalLocks' = st.keep
        /\ lastOp' = [k \in Keys |->
                IF \E i \in DOMAIN externalLocks :
                      Expired(externalLocks[i]) /\ externalLocks[i].key = k
                THEN NoOp ELSE lastOp[k]]
        /\ reaped' = reaped \cup {externalLocks[i].lockId : i \in
                                     {j \in DOMAIN externalLocks : Expired(externalLocks[j])}}
        /\ UNCHANGED <<now, pending, chainPrev, quoteCache, task, grantOrder,
                   sdkOwner, swap>>

\* Faulty variant: the whole cache is cleared.
InvalidateNonceAll(scope, address) ==
    /\ nonceState[buildKey(scope, address)] # NoNonce
    /\ nonceState' = [k \in Keys |-> NoNonce]
    /\ run' = [k \in Keys |-> NoRun]
    /\ lastOp' = [k \in Keys |-> NoOp]
    /\ UNCHANGED <<now, pending, walletLocks, chainPrev, resolved, externalLocks,
                   quoteCache, task, grantOrder, reaped,
                   sdkOwner, swap>>

\* POST /nonce/invalidate -> invalidateNonce(address, scope)
InvalidateNonce(scope, address) ==
    /\ nonceState[buildKey(scope, address)] # NoNonce
    /\ nonceState' = [nonceState EXCEPT ![buildKey(scope, address)] = NoNonce]
    /\ run' = [run EXCEPT ![buildKey(scope, address)] = NoRun]
    /\ OtherOp(buildKey(scope, address))
    /\ UNCHANGED <<now, pending, walletLocks, chainPrev, resolved, externalLocks,
                   quoteCache, task, grantOrder, reaped,
                   sdkOwner, swap>>

(* ------------------------------ the chain ------------------------------ *)
\* The node takes a transaction whose nonce is not below the account's
\* pending count, and rejects one below it ("nonce too low").
Accepts(k, nonce) == nonce >= pending[k]

\* A transaction is taken by the node: it raises the pending count when its
\* nonce is the next one.
Submit(k, nonce) ==
    pending' = [pending EXCEPT ![k] = IF nonce = @ THEN @ + 1 ELSE @]

\* What waiting for a transaction yields: a receipt with status 1, a receipt
\* with status 0, or no receipt within the timeout.
Receipts == {"confirmed", "reverted", "timeout"}

\* The time at which a cached quote expires (created_at + ttl): the quotes of
\* the model are created at time 0 and live for one step of the clock.
QuoteExpiresAt(qid) == TickMs

\* quoteCache.get(quoteId) finds an entry: one that exists and has not expired
quoteCacheGet(qid) == qid \in quoteCache /\ now < QuoteExpiresAt(qid)

(* ------------------- execute-quote (Pancakeswap) ----------------------- *)
\* executeQuote starts: quoteCache.get(quoteId) finds the quote.
StartQuote(t, network, address, qid, hw) ==
    /\ CanStart(t)
    /\ quoteCacheGet(qid)
    /\ task' = [task EXCEPT ![t] = [@ EXCEPT !.pc = "qAllow", !.op = "quote",
                                              !.key = buildKey(network, address),
                                              !.qid = qid, !.hw = hw]]
    /\ UNCHANGED <<now, pending, nonceState, walletLocks, chainPrev, resolved,
                   externalLocks, quoteCache, grantOrder, run, reaped, lastOp,
                   sdkOwner, swap>>

\* Faulty variant: the lock is acquired before the quote is looked up.
StartQuoteMissingAfterAcquire(t, network, address, qid) ==
    LET k == buildKey(network, address) IN
    /\ CanStart(t)
    /\ ~quoteCacheGet(qid)
    /\ AcquireCall(k)
    /\ task' = [task EXCEPT ![t] =
                  Finished([@ EXCEPT !.op = "quote", !.qid = qid, !.key = k,
                                     !.tks = {<<k, NewTicket(k)>>}], "NOT_FOUND")]
    /\ UNCHANGED <<now, pending, nonceState, resolved, externalLocks, quoteCache,
                   grantOrder, run, reaped, lastOp,
                   sdkOwner, swap>>

\* executeQuote starts: the quote is not in the cache; badRequest.
StartQuoteMissing(t, network, address, qid) ==
    /\ CanStart(t)
    /\ ~quoteCacheGet(qid)
    /\ task' = [task EXCEPT ![t] =
                  Finished([@ EXCEPT !.op = "quote", !.qid = qid,
                                     !.key = buildKey(network, address)], "NOT_FOUND")]
    /\ UNCHANGED <<now, pending, nonceState, walletLocks, chainPrev, resolved,
                   externalLocks, quoteCache, grantOrder, run, reaped, lastOp,
                   sdkOwner, swap>>

\* The request calls acquireWalletLock(walletAddress, network) and waits at pc.
QuoteAcquire(t, pc) ==
    LET k == task[t].key IN
    /\ AcquireCall(k)
    /\ task' = [task EXCEPT ![t] = [@ EXCEPT !.pc = pc, !.tk = NewTicket(k),
                                              !.tks = @ \cup {<<k, NewTicket(k)>>}]]
    /\ UNCHANGED <<now, pending, nonceState, resolved, externalLocks, quoteCache,
                   grantOrder, run, reaped, lastOp,
                   sdkOwner, swap>>

\* `await acquireWalletLock` of the request returns.
QuoteGranted(t, from, to) ==
    /\ task[t].pc = from
    /\ CanGrant(task[t].key, task[t].tk)
    /\ task' = [task EXCEPT ![t].pc = to]
    /\ grantOrder' = [grantOrder EXCEPT ![task[t].key] = Append(@, task[t].tk)]
    /\ UNCHANGED <<now, pending, nonceState, walletLocks, chainPrev, resolved,
                   externalLocks, quoteCache, run, reaped, lastOp,
                   sdkOwner, swap>>

\* The request fails outside any lock.
QuoteFails(t) ==
    /\ task' = [task EXCEPT ![t] = Finished(@, "ERROR")]
    /\ UNCHANGED <<now, pending, nonceState, walletLocks, chainPrev, resolved,
                   externalLocks, quoteCache, grantOrder, run, reaped, lastOp,
                   sdkOwner, swap>>

\* The input is the native token, or the Permit2 allowance is sufficient.
QuoteAllowanceOk(t) ==
    /\ task[t].pc = "qAllow"
    /\ QuoteAcquire(t, "qSwapWait")

\* A call before the lock throws (getInstance, allowance, getWallet).
QuoteAllowanceFails(t) ==
    /\ task[t].pc = "qAllow"
    /\ QuoteFails(t)

\* The Permit2 allowance is short or expired and the wallet is a hardware
\* wallet: badRequest naming the spender and the token.
QuoteAllowanceRequired(t) ==
    /\ task[t].pc = "qAllow"
    /\ task[t].hw
    /\ task' = [task EXCEPT ![t] = Finished(@, "BAD_REQUEST")]
    /\ UNCHANGED <<now, pending, nonceState, walletLocks, chainPrev, resolved,
                   externalLocks, quoteCache, grantOrder, run, reaped, lastOp,
                   sdkOwner, swap>>

\* Faulty variant: the auto-approval is tried for a hardware wallet too.
QuoteApproveStartAnyWallet(t) ==
    /\ task[t].pc = "qAllow"
    /\ QuoteAcquire(t, "qApprWait")

\* The allowance is short, software wallet: the auto-approval takes the lock.
QuoteApproveStart(t) ==
    /\ task[t].pc = "qAllow"
    /\ ~task[t].hw
    /\ QuoteAcquire(t, "qApprWait")

QuoteApproveGranted(t) == QuoteGranted(t, "qApprWait", "qApprHeld")

\* nonce: await getNextNonce(...) of the approval.
QuoteApproveNonce(t) ==
    LET k == task[t].key IN
    /\ task[t].pc = "qApprHeld"
    /\ GetNextNonce(k, pending[k])
    /\ OtherOp(k)
    /\ task' = [task EXCEPT ![t] = [@ EXCEPT !.pc = "qApprSend",
                                              !.nonce0 = NextNonceValue(k, pending[k])]]
    /\ UNCHANGED <<now, pending, walletLocks, chainPrev, resolved, externalLocks,
                   quoteCache, grantOrder, reaped,
                   sdkOwner, swap>>

\* signerPermit2.approve returns the sent transaction; finally releaseApproveLock().
QuoteApproveSent(t) ==
    /\ task[t].pc = "qApprSend"
    /\ Accepts(task[t].key, task[t].nonce0)
    /\ Submit(task[t].key, task[t].nonce0)
    /\ ReleaseHandle(task[t].key, task[t].tk)
    /\ task' = [task EXCEPT ![t] = [@ EXCEPT !.pc = "qApprConfirm",
                                              !.approval = "sent"]]
    /\ UNCHANGED <<now, nonceState, chainPrev, externalLocks, quoteCache,
                   grantOrder, run, reaped, lastOp,
                   sdkOwner, swap>>

\* getNextNonce or approve throws; finally releaseApproveLock().
QuoteApproveThrows(t) ==
    /\ task[t].pc \in {"qApprHeld", "qApprSend"}
    /\ ReleaseHandle(task[t].key, task[t].tk)
    /\ task' = [task EXCEPT ![t] = Finished(@, "ERROR")]
    /\ UNCHANGED <<now, pending, nonceState, chainPrev, externalLocks, quoteCache,
                   grantOrder, run, reaped, lastOp,
                   sdkOwner, swap>>

\* waitForTransactionWithTimeout(approveTx, 30000) yields a receipt with
\* status 1; the swap then takes the lock anew.
QuoteApproveConfirmed(t) ==
    LET k == task[t].key IN
    /\ task[t].pc = "qApprConfirm"
    /\ AcquireCall(k)
    /\ task' = [task EXCEPT ![t] = [@ EXCEPT !.pc = "qSwapWait", !.tk = NewTicket(k),
                                              !.tks = @ \cup {<<k, NewTicket(k)>>},
                                              !.approval = "confirmed"]]
    /\ UNCHANGED <<now, pending, nonceState, resolved, externalLocks, quoteCache,
                   grantOrder, run, reaped, lastOp,
                   sdkOwner, swap>>

\* Faulty variant: the swap goes on without a confirmed approval.
QuoteApproveNotConfirmedGoesOn(t) ==
    /\ task[t].pc = "qApprConfirm"
    /\ QuoteAcquire(t, "qSwapWait")

\* No receipt, or a status other than 1: internalServerError.
QuoteApproveNotConfirmed(t) ==
    /\ task[t].pc = "qApprConfirm"
    /\ QuoteFails(t)

QuoteSwapGranted(t) == QuoteGranted(t, "qSwapWait", "qSwapHeld")

\* await getNextNonce(...) of the swap (either wallet kind).
QuoteSwapNonce(t) ==
    LET k == task[t].key IN
    /\ task[t].pc = "qSwapHeld"
    /\ GetNextNonce(k, pending[k])
    /\ OtherOp(k)
    /\ task' = [task EXCEPT ![t] = [@ EXCEPT !.pc = "qSwapSend",
                                              !.nonce = NextNonceValue(k, pending[k])]]
    /\ UNCHANGED <<now, pending, walletLocks, chainPrev, resolved, externalLocks,
                   quoteCache, grantOrder, reaped,
                   sdkOwner, swap>>

\* sendTransaction returns the sent transaction.
QuoteSwapSent(t) ==
    /\ task[t].pc = "qSwapSend"
    /\ Accepts(task[t].key, task[t].nonce)
    /\ Submit(task[t].key, task[t].nonce)
    /\ task' = [task EXCEPT ![t].pc = "qSwapConfirm"]
    /\ UNCHANGED <<now, nonceState, walletLocks, chainPrev, resolved, externalLocks,
                   quoteCache, grantOrder, run, reaped, lastOp,
                   sdkOwner, swap>>

\* Faulty variant: a catch that rethrows, without the finally.
QuoteSwapThrowsHolding(t, nonceError) ==
    /\ task[t].pc \in {"qSwapHeld", "qSwapSend", "qSwapConfirm"}
    /\ task' = [task EXCEPT ![t] = Finished(@, "ERROR")]
    /\ UNCHANGED <<now, pending, nonceState, walletLocks, chainPrev, resolved,
                   externalLocks, quoteCache, grantOrder, run, reaped, lastOp,
                   sdkOwner, swap>>

\* Faulty variant: a catch that never invalidates the nonce cache.
QuoteSwapThrowsKeepsCache(t, nonceError) ==
    LET k == task[t].key IN
    /\ task[t].pc \in {"qSwapHeld", "qSwapSend", "qSwapConfirm"}
    /\ nonceError => task[t].pc = "qSwapSend"
    /\ (task[t].pc = "qSwapSend" /\ ~Accepts(k, task[t].nonce)) => nonceError
    /\ ReleaseHandle(k, task[t].tk)
    /\ task' = [task EXCEPT ![t] =
                  Finished(@, IF nonceError THEN "NONCE_ERROR" ELSE "ERROR")]
    /\ UNCHANGED <<now, pending, nonceState, chainPrev, externalLocks, quoteCache,
                   grantOrder, run, reaped, lastOp,
                   sdkOwner, swap>>

\* Something inside the try throws: the catch invalidates the nonce cache when
\* the error is a nonce error, rethrows, and finally releaseLock().
QuoteSwapThrows(t, nonceError) ==
    LET k == task[t].key IN
    /\ task[t].pc \in {"qSwapHeld", "qSwapSend", "qSwapConfirm"}
    /\ nonceError => task[t].pc = "qSwapSend"
    /\ (task[t].pc = "qSwapSend" /\ ~Accepts(k, task[t].nonce)) => nonceError
    /\ nonceState' = IF nonceError THEN [nonceState EXCEPT ![k] = NoNonce]
                     ELSE nonceState
    /\ run' = IF nonceError THEN [run EXCEPT ![k] = NoRun] ELSE run
    /\ lastOp' = IF nonceError THEN [lastOp EXCEPT ![k] = NoOp] ELSE lastOp
    /\ ReleaseHandle(k, task[t].tk)
    /\ task' = [task EXCEPT ![t] =
                  Finished(@, IF nonceError THEN "NONCE_ERROR" ELSE "ERROR")]
    /\ UNCHANGED <<now, pending, chainPrev, externalLocks, quoteCache,
                   grantOrder, reaped,
                   sdkOwner, swap>>

\* Faulty variant: the quote is deleted whatever the outcome.
QuoteSwapReturnsDeleting(t, receipt) ==
    /\ task[t].pc = "qSwapConfirm"
    /\ ReleaseHandle(task[t].key, task[t].tk)
    /\ quoteCache' = quoteCache \ {task[t].qid}
    /\ task' = [task EXCEPT ![t] =
                  Finished(@, CASE receipt = "confirmed" -> "CONFIRMED"
                                [] receipt = "timeout" -> "PENDING"
                                [] OTHER -> "FAILED")]
    /\ UNCHANGED <<now, pending, nonceState, chainPrev, externalLocks,
                   grantOrder, run, reaped, lastOp,
                   sdkOwner, swap>>

\* Faulty variant: a wait that ends without a receipt is an error.
QuoteSwapReturnsOrThrows(t, receipt) ==
    /\ task[t].pc = "qSwapConfirm"
    /\ ReleaseHandle(task[t].key, task[t].tk)
    /\ quoteCache' = IF receipt = "confirmed" THEN quoteCache \ {task[t].qid}
                     ELSE quoteCache
    /\ task' = [task EXCEPT ![t] =
                  Finished(@, CASE receipt = "confirmed" -> "CONFIRMED"
                                [] receipt = "timeout" -> "ERROR"
                                [] OTHER -> "FAILED")]
    /\ UNCHANGED <<now, pending, nonceState, chainPrev, externalLocks,
                   grantOrder, run, reaped, lastOp,
                   sdkOwner, swap>>

\* The wait for the swap ends; finally releaseLock(); then
\* handleTransactionConfirmation: status 1 deletes the quote and returns,
\* status 0 (no receipt yet) returns pending, status -1 throws.
QuoteSwapReturns(t, receipt) ==
    /\ task[t].pc = "qSwapConfirm"
    /\ ReleaseHandle(task[t].key, task[t].tk)
    /\ quoteCache' = IF receipt = "confirmed" THEN quoteCache \ {task[t].qid}
                     ELSE quoteCache
    /\ task' = [task EXCEPT ![t] =
                  Finished(@, CASE receipt = "confirmed" -> "CONFIRMED"
                                [] receipt = "timeout" -> "PENDING"
                                [] OTHER -> "FAILED")]
    /\ UNCHANGED <<now, pending, nonceState, chainPrev, externalLocks,
                   grantOrder, run, reaped, lastOp,
                   sdkOwner, swap>>

(* ------------------- execute-swap (Uniswap CLMM) ----------------------- *)
\* executeClmmSwap starts: acquireWalletLock(walletAddress) of the route's own map.
StartClmm(t, network, address) ==
    LET c == clmmKey(address) IN
    /\ CanStart(t)
    /\ AcquireCall(c)
    /\ task' = [task EXCEPT ![t] = [@ EXCEPT !.pc = "cWait", !.op = "clmm",
                                              !.key = buildKey(network, address),
                                              !.tk0 = NewTicket(c),
                                              !.tks = @ \cup {<<c, NewTicket(c)>>}]]
    /\ UNCHANGED <<now, pending, nonceState, resolved, externalLocks, quoteCache,
                   grantOrder, run, reaped, lastOp,
                   sdkOwner, swap>>

ClmmGranted(t) ==
    LET c == clmmKey(task[t].key[2]) IN
    /\ task[t].pc = "cWait"
    /\ CanGrant(c, task[t].tk0)
    /\ task' = [task EXCEPT ![t].pc = "cHeld"]
    /\ grantOrder' = [grantOrder EXCEPT ![c] = Append(@, task[t].tk0)]
    /\ UNCHANGED <<now, pending, nonceState, walletLocks, chainPrev, resolved,
                   externalLocks, quoteCache, run, reaped, lastOp,
                   sdkOwner, swap>>

\* A step of the request that changes nothing but its position.
ClmmGoes(t, from, to) ==
    /\ task[t].pc = from
    /\ task' = [task EXCEPT ![t].pc = to]
    /\ UNCHANGED <<now, pending, nonceState, walletLocks, chainPrev, resolved,
                   externalLocks, quoteCache, grantOrder, run, reaped, lastOp,
                   sdkOwner, swap>>

\* Pool, quote and allowance are read; the allowance is sufficient.
ClmmAllowanceOk(t) == ClmmGoes(t, "cHeld", "cBalance")

\* The allowance is short: approveEthereumToken is called, which takes the
\* nonce manager's lock of the wallet.
ClmmApproveStart(t) ==
    LET k == task[t].key IN
    /\ task[t].pc = "cHeld"
    /\ AcquireCall(k)
    /\ task' = [task EXCEPT ![t] = [@ EXCEPT !.pc = "cApprWait", !.tk = NewTicket(k),
                                              !.tks = @ \cup {<<k, NewTicket(k)>>}]]
    /\ UNCHANGED <<now, pending, nonceState, resolved, externalLocks, quoteCache,
                   grantOrder, run, reaped, lastOp,
                   sdkOwner, swap>>

ClmmApproveGranted(t) == QuoteGranted(t, "cApprWait", "cApprHeld")

\* The approval gets its nonce, is sent, and releases the lock.
ClmmApproveReturns(t) ==
    LET k == task[t].key IN
    /\ task[t].pc = "cApprHeld"
    /\ Accepts(k, NextNonceValue(k, pending[k]))
    /\ GetNextNonce(k, pending[k])
    /\ OtherOp(k)
    /\ Submit(k, NextNonceValue(k, pending[k]))
    /\ ReleaseHandle(k, task[t].tk)
    /\ task' = [task EXCEPT ![t] = [@ EXCEPT !.pc = "cBalance",
                                              !.nonce0 = NextNonceValue(k, pending[k])]]
    /\ UNCHANGED <<now, chainPrev, externalLocks, quoteCache, grantOrder, reaped,
                   sdkOwner, swap>>

\* The approval throws and releases the lock; the error reaches the catch
\* of executeClmmSwap.
ClmmApproveThrows(t) ==
    /\ task[t].pc = "cApprHeld"
    /\ ReleaseHandle(task[t].key, task[t].tk)
    /\ task' = [task EXCEPT ![t].pc = "cFailing"]
    /\ UNCHANGED <<now, pending, nonceState, chainPrev, externalLocks, quoteCache,
                   grantOrder, run, reaped, lastOp,
                   sdkOwner, swap>>

\* The approval gets its nonce and its submission fails with a nonce error:
\* the handler invalidates the nonce cache, releases the lock and throws.
ClmmApproveNonceError(t) ==
    LET k == task[t].key IN
    /\ task[t].pc = "cApprHeld"
    /\ nonceState' = [nonceState EXCEPT ![k] = NoNonce]
    /\ run' = [run EXCEPT ![k] = NoRun]
    /\ OtherOp(k)
    /\ ReleaseHandle(k, task[t].tk)
    /\ task' = [task EXCEPT ![t].pc = "cFailing"]
    /\ UNCHANGED <<now, pending, chainPrev, externalLocks, quoteCache,
                   grantOrder, reaped,
                   sdkOwner, swap>>

\* The balance is sufficient.
ClmmBalanceOk(t) == ClmmGoes(t, "cBalance", "cNonce")

\* The nonce of the swap: provider.getTransactionCount(walletAddress, 'pending'),
\* asked by the route (hardware wallet) or by the signer (software wallet).
ClmmReadNonce(t) ==
    /\ task[t].pc = "cNonce"
    /\ task' = [task EXCEPT ![t] = [@ EXCEPT !.pc = "cSend",
                                              !.nonce = pending[task[t].key]]]
    /\ UNCHANGED <<now, pending, nonceState, walletLocks, chainPrev, resolved,
                   externalLocks, quoteCache, grantOrder, run, reaped, lastOp,
                   sdkOwner, swap>>

ClmmSent(t) ==
    /\ task[t].pc = "cSend"
    /\ Accepts(task[t].key, task[t].nonce)
    /\ Submit(task[t].key, task[t].nonce)
    /\ task' = [task EXCEPT ![t].pc = "cConfirm"]
    /\ UNCHANGED <<now, nonceState, walletLocks, chainPrev, resolved, externalLocks,
                   quoteCache, grantOrder, run, reaped, lastOp,
                   sdkOwner, swap>>

\* The route leaves its try block, with a result or with an error:
\* finally releaseLock().
ClmmLeaves(t, result) ==
    /\ ReleaseHandle(clmmKey(task[t].key[2]), task[t].tk0)
    /\ task' = [task EXCEPT ![t] = Finished(@, result)]
    /\ UNCHANGED <<now, pending, nonceState, chainPrev, externalLocks, quoteCache,
                   grantOrder, run, reaped, lastOp,
                   sdkOwner, swap>>

\* The receipt has status 1: the route returns CONFIRMED.
ClmmReturns(t) ==
    /\ task[t].pc = "cConfirm"
    /\ ClmmLeaves(t, "CONFIRMED")

\* Faulty variant: the swap goes on with a short balance.
ClmmBalanceShortGoesOn(t) == ClmmGoes(t, "cBalance", "cNonce")

\* balanceRaw.lt(requiredAmount): badRequest with the needed and the
\* available amount; the catch rethrows it; finally releaseLock().
ClmmBalanceShort(t) ==
    /\ task[t].pc = "cBalance"
    /\ ClmmLeaves(t, "BAD_REQUEST")

\* Hardware wallet: waitForTransactionWithTimeout(txResponse, 30000) ends
\* without a receipt; `receipt.status` throws, and the catch answers
\* internalServerError.  (Software wallet: tx.wait() has no timeout, the
\* request stays where it is.)
ClmmNoReceipt(t) ==
    /\ task[t].pc = "cConfirm"
    /\ ClmmLeaves(t, "ERROR")

\* A call inside the try throws, or the transaction reverts.
ClmmThrows(t) ==
    /\ task[t].pc \in {"cHeld", "cFailing", "cBalance", "cNonce", "cSend", "cConfirm"}
    /\ ClmmLeaves(t, "ERROR")

(* ----------------------- execute-swap (Raydium) ------------------------ *)
\* The part of the state the Raydium routes leave alone.
gatewayVars == <<now, pending, nonceState, walletLocks, chainPrev, resolved,
                 externalLocks, quoteCache, task, grantOrder, run, reaped, lastOp>>

\* The catch of the route: throw mapSwapError(fastify, e, errContext)
RayFailed(q, error) ==
    [q EXCEPT !.pc = "done", !.error = error, !.reply = mapSwapError(error)]

\* executeClmmSwap throws.  On the AMM endpoint the call stands in the try of
\* the pool type detection, whose catch rethrows an error that has a
\* statusCode and otherwise goes on to the AMM path.
RayClmmThrows(q, error) ==
    IF q.endpoint = "amm" /\ error.statusCode = 0
    THEN [q EXCEPT !.pc = "ammPrepare", !.ammRuns = @ + 1]
    ELSE RayFailed(q, error)

\* POST /connectors/raydium/{amm,clmm}/execute-swap arrives.
RayStart(r, endpoint, network, wallet, baseToken, pool) ==
    /\ swap[r].pc = "idle"
    /\ \A u \in Requests : u < r => swap[u].pc # "idle"
    /\ endpoint = "clmm" => pool # "ammPool"
    /\ (endpoint = "amm" /\ pool = "ammPool") => getToken(baseToken)
    /\ swap' = [swap EXCEPT ![r] = [@ EXCEPT !.pc = "route",
                                            !.endpoint = endpoint,
                                            !.network = network,
                                            !.wallet = wallet,
                                            !.baseToken = baseToken,
                                            !.pool = pool]]
    /\ UNCHANGED <<gatewayVars, sdkOwner>>

\* The handler of the route up to its call of an executeSwap; found says
\* whether poolService.getPool finds a pool of the token pair.
RayRoute(r, found) ==
    LET q == swap[r] IN
    /\ q.pc = "route"
    /\ q.pool # NoPool => found
    /\ swap' = [swap EXCEPT ![r] =
          IF q.endpoint = "amm" /\ q.pool # NoPool
          THEN IF isValidClmm(ProgramOf(q.pool))
               THEN [q EXCEPT !.pc = "clmmContext", !.clmmRuns = @ + 1]
               ELSE [q EXCEPT !.pc = "ammPrepare", !.ammRuns = @ + 1]
          ELSE IF q.pool # NoPool
          THEN [q EXCEPT !.pc = "clmmContext", !.clmmRuns = @ + 1]
          ELSE IF ~getToken(q.baseToken)
          THEN RayFailed(q, badRequest(TokenNotFound(q.baseToken)))
          ELSE IF ~found
          THEN RayFailed(q, notFound(NoPoolFound(
                    IF q.endpoint = "amm" THEN "AMM" ELSE "CLMM", q.baseToken)))
          ELSE IF q.endpoint = "amm"
          THEN [q EXCEPT !.pool = "ammPool", !.pc = "ammPrepare",
                         !.ammRuns = @ + 1]
          ELSE [q EXCEPT !.pool = "clmmPool", !.pc = "clmmContext",
                         !.clmmRuns = @ + 1]]
    /\ UNCHANGED <<gatewayVars, sdkOwner>>

\* executeSwap of the CLMM routes: resolveClmmContext
RayClmmContext(r) ==
    LET q == swap[r] IN
    /\ q.pc = "clmmContext"
    /\ swap' = [swap EXCEPT ![r] =
          IF ProgramOf(q.pool) = "none"
          THEN RayClmmThrows(q, notFound(PoolNotFound(q.pool)))
          ELSE [q EXCEPT !.pc = "clmmPrepare"]]
    /\ UNCHANGED <<gatewayVars, sdkOwner>>

\* raydium.prepareWallet(walletAddress): setOwner loads the SDK of the
\* network's Raydium instance with the request's wallet.  In the AMM
\* executeSwap getAmmPoolInfo follows, which finds AMM and CPMM pools only.
RayPrepareWallet(r) ==
    LET q == swap[r] IN
    /\ q.pc \in {"clmmPrepare", "ammPrepare"}
    /\ sdkOwner' = [sdkOwner EXCEPT ![q.network] = q.wallet]
    /\ swap' = [swap EXCEPT ![r] =
          IF q.pc = "clmmPrepare" THEN [q EXCEPT !.pc = "clmmQuote"]
          ELSE IF ProgramOf(q.pool) # "amm"
          THEN RayFailed(q, notFound(PoolNotFound(q.pool)))
          ELSE [q EXCEPT !.pc = "build"]]
    /\ UNCHANGED gatewayVars

\* getSwapQuote of the CLMM routes, called with the request's slippagePct;
\* ticks says whether fetchWideTickArrays finds tick arrays.
RayClmmQuote(r, slippagePct, ticks) ==
    LET q == swap[r] IN
    /\ q.pc = "clmmQuote"
    /\ swap' = [swap EXCEPT ![r] =
          IF ~getToken(q.baseToken)
          THEN RayClmmThrows(q, notFound(TokenNotFound(q.baseToken)))
          ELSE IF ~ticks
          THEN RayClmmThrows(q, PlainError(NotEnoughTickData))
          ELSE [q EXCEPT !.pc = "build",
                         !.slippagePct = slippagePctEffective(slippagePct),
                         !.slippage = effectiveSlippageNumber(slippagePct)]]
    /\ UNCHANGED <<gatewayVars, sdkOwner>>

\* raydiumSDK.clmm.swap / swapBaseOut / liquidity.swap / cpmm.swap builds the
\* transaction for the owner the SDK was loaded with; the request's wallet
\* signs it.
RayBuild(r) ==
    /\ swap[r].pc = "build"
    /\ swap' = [swap EXCEPT ![r] =
          [@ EXCEPT !.pc = "send", !.txOwner = sdkOwner[swap[r].network]]]
    /\ UNCHANGED <<gatewayVars, sdkOwner>>

\* solana.sendAndConfirmRawTransaction(transaction)
RaySend(r) ==
    /\ swap[r].pc = "send"
    /\ swap' = [swap EXCEPT ![r] = [@ EXCEPT !.pc = "confirm", !.sent = @ + 1]]
    /\ UNCHANGED <<gatewayVars, sdkOwner>>

\* solana.handleConfirmation returns and the route answers with its result.
RayReturns(r) ==
    /\ swap[r].pc = "confirm"
    /\ swap' = [swap EXCEPT ![r] = [@ EXCEPT !.pc = "done", !.reply = Ok]]
    /\ UNCHANGED <<gatewayVars, sdkOwner>>

(* ---------------------------- environment ------------------------------ *)
\* Time passes.  The cleanup timer fires every CLEANUP_INTERVAL_MS, which is
\* less than one step of the clock: a lease that is already expired is reaped
\* before the clock moves on.  The clock stops after the given number of steps.
Clock(ticks) ==
    /\ now < ticks * TickMs
    /\ CLEANUP_INTERVAL_MS <= TickMs
    /\ \A i \in DOMAIN externalLocks : ~Expired(externalLocks[i])
    /\ now' = now + TickMs
    /\ UNCHANGED <<pending, nonceState, walletLocks, chainPrev, resolved,
                   externalLocks, quoteCache, task, grantOrder, run, reaped, lastOp,
                   sdkOwner, swap>>

Tick == Clock(MaxTicks)

\* Another submitter's transaction of the wallet reaches the chain.
ChainAdvance(k) ==
    /\ pending[k] < MaxPending
    /\ pending' = [pending EXCEPT ![k] = @ + 1]
    /\ UNCHANGED <<now, nonceState, walletLocks, chainPrev, resolved,
                   externalLocks, quoteCache, task, grantOrder, run, reaped, lastOp,
                   sdkOwner, swap>>

(* --------------------------- specifications ---------------------------- *)
\* The nonce manager and its external API, used by callers that take the
\* wallet lock before they ask for a nonce.
Next ==
    \/ \E t \in Tasks, s \in ApiScopes, a \in AddrInputs : StartInternal(t, s, a)
    \/ \E t \in Tasks : InternalGranted(t)
    \/ \E t \in Tasks : InternalGetNonce(t)
    \/ \E t \in Tasks : InternalRelease(t)
    \/ \E t \in Tasks : InternalReleaseAgain(t)
    \/ \E t \in Tasks, s \in ApiScopes, a \in AddrInputs : StartLease(t, s, a)
    \/ \E t \in Tasks : LeaseGranted(t)
    \/ \E t \in Tasks, ttl \in TtlInputs : LeaseStored(t, ttl)
    \/ \E t \in Tasks : LeaseNonceFails(t)
    \/ \E id \in LockIds, sent \in BOOLEAN : ReleaseNonceByLockId(id, sent)
    \/ \E id \in LockIds, sent \in BOOLEAN : ReleaseUnknownLockId(id, sent)
    \/ CleanupExpiredLocks
    \/ \E s \in ApiScopes, a \in AddrInputs : InvalidateNonce(s, a)
    \/ Clock(MaxLeaseTicks)
    \/ \E s \in ApiScopes, a \in AddrInputs : ChainAdvance(buildKey(s, a))

Spec == Init /\ [][Next]_vars

\* The nonce manager's exported functions called in any order: getNextNonce
\* without the lock, leases, rollbacks, invalidation, the cleanup timer.
NextNonce ==
    \/ \E s \in ApiScopes, a \in AddrInputs : DirectGetNextNonce(s, a)
    \/ \E t \in Requests, s \in ApiScopes, a \in AddrInputs : StartLease(t, s, a)
    \/ \E t \in Requests : LeaseGranted(t)
    \/ \E t \in Requests, ttl \in TtlInputs : LeaseStored(t, ttl)
    \/ \E id \in LockIds, sent \in BOOLEAN : ReleaseNonceByLockId(id, sent)
    \/ CleanupExpiredLocks
    \/ \E s \in ApiScopes, a \in AddrInputs : InvalidateNonce(s, a)
    \/ Tick
    \/ \E s \in ApiScopes, a \in AddrInputs : ChainAdvance(buildKey(s, a))

SpecNonce == Init /\ [][NextNonce]_vars

\* The swap routes and the leases of one wallet on one network.
NextSwap ==
    \/ \E t \in Requests, n \in SwapNetworks, a \in AddrInputs, q \in QuoteIds,
          hw \in BOOLEAN : StartQuote(t, n, a, q, hw)
    \/ \E t \in Requests, n \in SwapNetworks, a \in AddrInputs, q \in QuoteIds :
          StartQuoteMissing(t, n, a, q)
    \/ \E t \in Requests : QuoteAllowanceOk(t)
    \/ \E t \in Requests : QuoteAllowanceFails(t)
    \/ \E t \in Requests : QuoteAllowanceRequired(t)
    \/ \E t \in Requests : QuoteApproveStart(t)
    \/ \E t \in Requests : QuoteApproveGranted(t)
    \/ \E t \in Requests : QuoteApproveNonce(t)
    \/ \E t \in Requests : QuoteApproveSent(t)
    \/ \E t \in Requests : QuoteApproveThrows(t)
    \/ \E t \in Requests : QuoteApproveConfirmed(t)
    \/ \E t \in Requests : QuoteApproveNotConfirmed(t)
    \/ \E t \in Requests : QuoteSwapGranted(t)
    \/ \E t \in Requests : QuoteSwapNonce(t)
    \/ \E t \in Requests : QuoteSwapSent(t)
    \/ \E t \in Requests, e \in BOOLEAN : QuoteSwapThrows(t, e)
    \/ \E t \in Requests, r \in Receipts : QuoteSwapReturns(t, r)
    \/ \E t \in Requests, n \in SwapNetworks, a \in AddrInputs : StartClmm(t, n, a)
    \/ \E t \in Requests : ClmmGranted(t)
    \/ \E t \in Requests : ClmmAllowanceOk(t)
    \/ \E t \in Requests : ClmmApproveStart(t)
    \/ \E t \in Requests : ClmmApproveGranted(t)
    \/ \E t \in Requests : ClmmApproveReturns(t)
    \/ \E t \in Requests : ClmmApproveThrows(t)
    \/ \E t \in Requests : ClmmApproveNonceError(t)
    \/ \E t \in Requests : ClmmBalanceOk(t)
    \/ \E t \in Requests : ClmmBalanceShort(t)
    \/ \E t \in Requests : ClmmNoReceipt(t)
    \/ \E t \in Requests : ClmmReadNonce(t)
    \/ \E t \in Requests : ClmmSent(t)
    \/ \E t \in Requests : ClmmReturns(t)
    \/ \E t \in Requests : ClmmThrows(t)
    \/ \E t \in Requests, n \in SwapNetworks, a \in AddrInputs : StartLease(t, n, a)
    \/ \E t \in Requests : LeaseGranted(t)
    \/ \E t \in Requests, ttl \in TtlInputs : LeaseStored(t, ttl)
    \/ \E id \in LockIds, sent \in BOOLEAN : ReleaseNonceByLockId(id, sent)

SpecSwap == Init /\ [][NextSwap]_vars

\* The networks of the Uniswap route's requests.
ClmmNetworks == ScopeInputs \ {NoScope}

\* execute-swap of the Uniswap CLMM route, on several networks.
NextClmm ==
    \/ \E t \in Requests, n \in ClmmNetworks, a \in AddrInputs : StartClmm(t, n, a)
    \/ \E t \in Requests : ClmmGranted(t)
    \/ \E t \in Requests : ClmmAllowanceOk(t)
    \/ \E t \in Requests : ClmmApproveStart(t)
    \/ \E t \in Requests : ClmmApproveGranted(t)
    \/ \E t \in Requests : ClmmApproveReturns(t)
    \/ \E t \in Requests : ClmmApproveThrows(t)
    \/ \E t \in Requests : ClmmApproveNonceError(t)
    \/ \E t \in Requests : ClmmBalanceOk(t)
    \/ \E t \in Requests : ClmmBalanceShort(t)
    \/ \E t \in Requests : ClmmReadNonce(t)
    \/ \E t \in Requests : ClmmSent(t)
    \/ \E t \in Requests : ClmmNoReceipt(t)
    \/ \E t \in Requests : ClmmReturns(t)
    \/ \E t \in Requests : ClmmThrows(t)

SpecClmm == Init /\ [][NextClmm]_vars

\* Acquires whose holders all release: the handlers by their handle, the
\* leases by /nonce/release or by the reaper.
NextLive ==
    \/ \E t \in Requests, s \in ApiScopes, a \in AddrInputs : StartInternal(t, s, a)
    \/ \E t \in Requests : InternalGranted(t)
    \/ \E t \in Requests : InternalGetNonce(t)
    \/ \E t \in Requests : InternalRelease(t)
    \/ \E t \in Requests, s \in ApiScopes, a \in AddrInputs : StartLease(t, s, a)
    \/ \E t \in Requests : LeaseGranted(t)
    \/ \E t \in Requests, ttl \in TtlInputs : LeaseStored(t, ttl)
    \/ \E id \in LockIds, sent \in BOOLEAN : ReleaseNonceByLockId(id, sent)
    \/ CleanupExpiredLocks
    \/ Clock(MaxLeaseTicks)

\* A continuation whose promise is resolved runs; a holder releases.
Fairness ==
    /\ \A t \in Requests : WF_vars(InternalGranted(t))
    /\ \A t \in Requests : WF_vars(InternalRelease(t))
    /\ \A t \in Requests : WF_vars(LeaseGranted(t))
    /\ \A t \in Requests : WF_vars(\E ttl \in TtlInputs : LeaseStored(t, ttl))
    /\ WF_vars(\/ \E id \in LockIds, sent \in BOOLEAN : ReleaseNonceByLockId(id, sent)
               \/ CleanupExpiredLocks)

SpecLive == Init /\ [][NextLive]_vars /\ Fairness

\* Leases of one address under several scopes, and invalidation.
NextScopes ==
    \/ \E t \in Requests, s \in ScopeInputs, a \in AddrInputs : StartLease(t, s, a)
    \/ \E t \in Requests : LeaseGranted(t)
    \/ \E t \in Requests, ttl \in TtlInputs : LeaseStored(t, ttl)
    \/ \E id \in LockIds, sent \in BOOLEAN : ReleaseNonceByLockId(id, sent)
    \/ \E s \in ScopeInputs, a \in AddrInputs : InvalidateNonce(s, a)
    \/ CleanupExpiredLocks
    \/ Clock(MaxLeaseTicks)

SpecScopes == Init /\ [][NextScopes]_vars

\* Execute-swap requests of the Raydium AMM and CLMM routes.
NextRaydium ==
    \/ \E r \in Requests, e \in {"amm", "clmm"}, n \in RaydiumNetworks,
          w \in Wallets, b \in TokenInputs, p \in PoolInputs :
          RayStart(r, e, n, w, b, p)
    \/ \E r \in Requests, found \in BOOLEAN : RayRoute(r, found)
    \/ \E r \in Requests : RayClmmContext(r)
    \/ \E r \in Requests : RayPrepareWallet(r)
    \/ \E r \in Requests, s \in SlippageInputs, ticks \in BOOLEAN :
          RayClmmQuote(r, s, ticks)
    \/ \E r \in Requests : RayBuild(r)
    \/ \E r \in Requests : RaySend(r)
    \/ \E r \in Requests : RayReturns(r)

SpecRaydium == Init /\ [][NextRaydium]_vars

\* Execute-quote requests while the clock runs past the expiry of the quote.
NextExpiry ==
    \/ \E t \in Requests, n \in SwapNetworks, a \in AddrInputs, q \in QuoteIds,
          hw \in BOOLEAN : StartQuote(t, n, a, q, hw)
    \/ \E t \in Requests, n \in SwapNetworks, a \in AddrInputs, q \in QuoteIds :
          StartQuoteMissing(t, n, a, q)
    \/ \E t \in Requests : QuoteAllowanceOk(t)
    \/ \E t \in Requests : QuoteAllowanceFails(t)
    \/ \E t \in Requests : QuoteAllowanceRequired(t)
    \/ \E t \in Requests : QuoteApproveStart(t)
    \/ \E t \in Requests : QuoteApproveGranted(t)
    \/ \E t \in Requests : QuoteApproveNonce(t)
    \/ \E t \in Requests : QuoteApproveSent(t)
    \/ \E t \in Requests : QuoteApproveThrows(t)
    \/ \E t \in Requests : QuoteApproveConfirmed(t)
    \/ \E t \in Requests : QuoteApproveNotConfirmed(t)
    \/ \E t \in Requests : QuoteSwapGranted(t)
    \/ \E t \in Requests : QuoteSwapNonce(t)
    \/ \E t \in Requests : QuoteSwapSent(t)
    \/ \E t \in Requests, e \in BOOLEAN : QuoteSwapThrows(t, e)
    \/ \E t \in Requests, r \in Receipts : QuoteSwapReturns(t, r)
    \/ Clock(MaxLeaseTicks)

SpecExpiry == Init /\ [][NextExpiry]_vars


(* ------------------------- properties of Spec -------------------------- *)
\* The positions at which a request holds the wallet lock of its key.
HeldPcs == {"iHeld", "iNonce", "lHeld", "qApprHeld", "qApprSend",
            "qSwapHeld", "qSwapSend", "qSwapConfirm", "cApprHeld"}

\* Who holds key k: the requests that are inside their lock, and the leases.
HeldBy(k) ==
    {<<"request", t>> : t \in {u \in Tasks : task[u].pc \in HeldPcs /\ task[u].key = k}}
    \cup {<<"lease", externalLocks[i].lockId>> :
             i \in {j \in DOMAIN externalLocks : externalLocks[j].key = k}}

\* C1: at any time a wallet key has at most one holder of its lock, the
\* internal holders and the external nonce leases counted together.
C1_MutualExclusion ==
    \A k \in Keys : Cardinality(Holders(k)) <= 1 /\ Cardinality(HeldBy(k)) <= 1

\* A lease holds the key while a handler that asked for the same key waits.
C1_Witness ==
    \E i \in DOMAIN externalLocks, t \in Tasks :
        /\ externalLocks[i].release \in Holders(externalLocks[i].key)
        /\ task[t].pc = "iWait"
        /\ task[t].key = externalLocks[i].key

\* C2: the lock of a key is granted in the order the acquires arrived, the
\* handlers' acquires and the leases' acquires in one queue.
C2_GrantedInArrivalOrder ==
    \A k \in Keys : \A i \in DOMAIN grantOrder[k] : grantOrder[k][i] = i

\* Three acquires of one key were granted, a lease's and a handler's among
\* them, each of the later two behind the promise the one before left.
C2_Witness ==
    \E k \in Keys :
        /\ Len(grantOrder[k]) >= 3
        /\ \A i \in 2..3 : chainPrev[k][i] = ThenPromise(i - 1)
        /\ \E t, u \in Tasks : /\ task[t].op = "lease" /\ task[t].key = k
                               /\ task[u].op = "internal" /\ task[u].key = k

\* C4 (as the specification states it): a /nonce/acquire that failed after it
\* got the wallet lock has released the lock.
C4_FailedAcquireReleased ==
    \A t \in Tasks :
        (task[t].pc = "done" /\ task[t].op = "lease" /\ task[t].result = "error")
            => \A tk \in task[t].tks : tk[2] \in resolved[tk[1]]

\* C7 (amended): when cleanupExpiredLocks runs, every lease whose TTL has
\* elapsed leaves the lease list, its key is held by nobody, and the nonce
\* cache of its key holds no more than the nonce the lease was handed.
C7_ReaperFreesExpiredLease ==
    [][\A i \in DOMAIN externalLocks :
          (CleanupExpiredLocks /\ Expired(externalLocks[i])) =>
              LET lockInfo == externalLocks[i] IN
              /\ \A j \in DOMAIN externalLocks' :
                     externalLocks'[j].lockId # lockInfo.lockId
              /\ lockInfo.release \in resolved'[lockInfo.key]
              /\ \A j \in DOMAIN grantOrder'[lockInfo.key] :
                     grantOrder'[lockInfo.key][j] \in resolved'[lockInfo.key]
              /\ \/ nonceState'[lockInfo.key] = NoNonce
                 \/ nonceState'[lockInfo.key].nextNonce <= lockInfo.nonce]_vars

\* A lease was reaped, its nonce is back in the cache, and the acquire that
\* queued behind it was granted.
C7_Witness ==
    \E k \in Keys :
        /\ <<k, 1>> \in reaped
        /\ nonceState[k] # NoNonce /\ nonceState[k].updatedAt = now
        /\ Len(grantOrder[k]) >= 2

\* C7 (as the specification states it): once the TTL of a lease has elapsed
\* the lease is not listed.
C7_NoExpiredLeaseListed ==
    \A i \in DOMAIN externalLocks : ~Expired(externalLocks[i])

(* ----------------------- properties of SpecNonce ----------------------- *)
\* C5 (as the specification states it): serial getNextNonce calls on a fresh
\* cache with the chain's pending count fixed at p return p, p+1, p+2, ...
\* for every length of the sequence.
C5_SerialRunCountsUp ==
    \A k \in Keys : \A i \in DOMAIN run[k].vals : run[k].vals[i] = run[k].p + i - 1

\* C5 (amended): in such a run, as long as each call comes less than
\* MAX_NONCE_CACHE_AGE_MS after the one before, the first MAX_NONCE_GAP calls
\* return p, p+1, ..., p+MAX_NONCE_GAP-1, and the call after them returns p again.
C5_SerialRunUpToGap ==
    \A k \in Keys : \A i \in DOMAIN run[k].vals :
        ~run[k].slow =>
            /\ i <= MAX_NONCE_GAP => run[k].vals[i] = run[k].p + i - 1
            /\ i = MAX_NONCE_GAP + 1 => run[k].vals[i] = run[k].p

\* A run of MAX_NONCE_GAP + 1 calls without a pause, the pending count at p.
C5_Witness ==
    \E k \in Keys : /\ Len(run[k].vals) = MAX_NONCE_GAP + 1
                    /\ ~run[k].slow
                    /\ run[k].p = pending[k]

\* C6 (as the specification states it): releasing lease n with
\* transactionSent = false changes the nonce cache exactly when the cached
\* next nonce is n + 1, and leaves it unchanged otherwise.
C6_RollbackOnlyFromNext ==
    [][\A i \in DOMAIN externalLocks :
          ReleaseNonceByLockId(externalLocks[i].lockId, FALSE) =>
              LET lockInfo == externalLocks[i] IN
              (nonceState' # nonceState) <=>
                  /\ nonceState[lockInfo.key] # NoNonce
                  /\ nonceState[lockInfo.key].nextNonce = lockInfo.nonce + 1]_vars

C8_QuoteConfirmedAtMostOnce ==
    \A q \in QuoteIds :
        Cardinality({t \in Tasks : /\ task[t].op = "quote" /\ task[t].qid = q
                                   /\ task[t].result = "CONFIRMED"}) <= 1

\* C9 (as the specification states it): the nonce handed to the holder of a
\* wallet's lock is not seen by another operation on that wallet, the Uniswap
\* CLMM execute-swap included, before the holder releases.
C9_LeasedNonceNotSeenByClmm ==
    \A t \in Tasks, i \in DOMAIN externalLocks :
        (/\ task[t].op = "clmm" /\ task[t].pc \in {"cSend", "cConfirm"}
         /\ task[t].key = externalLocks[i].key)
            => task[t].nonce # externalLocks[i].nonce

\* C10 (as the specification states it): when execute-quote sends an approval
\* and then the swap, the swap's nonce is the approval's nonce plus one.
C10_SwapNonceFollowsApproval ==
    \A t \in Tasks :
        (/\ task[t].op = "quote" /\ task[t].pc \in {"qSwapSend", "qSwapConfirm"}
         /\ task[t].nonce0 # -1)
            => task[t].nonce = task[t].nonce0 + 1

\* C11 (as the specification states it): when execute-quote was handed nonce
\* n and fails before it submits (the signing is rejected, say), the release
\* of the lock rolls the nonce back: with the chain's pending count unchanged
\* the next getNextNonce of the wallet returns n again.
C11_UnsentNonceHandedOutAgain ==
    [][\A t \in Tasks, k \in Keys :
          (/\ task[t].key = k
           /\ task[t].pc = "qSwapSend"
           /\ QuoteSwapThrows(t, FALSE))
              => NextNonceValue(k, pending[k])' = task[t].nonce]_vars

(* ----------------------- properties of SpecScopes ---------------------- *)
\* Request u stands before request t in the queue of the same address and scope.
AheadInScope(u, t) ==
    /\ u # t
    /\ task[u].key[2] = task[t].key[2]
    /\ EffectiveScope(task[u].scope) = EffectiveScope(task[t].scope)
    /\ \/ task[u].pc = "lHeld"
       \/ task[u].pc = "lWait" /\ task[u].tk < task[t].tk

\* C12: an acquire for (address, scope) waits only for holders and earlier
\* acquires of the same address and scope: with none of those it is granted,
\* whatever is held under other scopes of the address.
C12_ScopesIndependent ==
    \A t \in Tasks :
        (/\ task[t].pc = "lWait"
         /\ \A u \in Tasks : ~AheadInScope(u, t)
         /\ \A i \in DOMAIN externalLocks :
               \/ externalLocks[i].address # task[t].key[2]
               \/ EffectiveScope(externalLocks[i].scope) # EffectiveScope(task[t].scope))
            => CanGrant(task[t].key, task[t].tk)

\* A lease is held under one scope of an address while an acquire under
\* another scope of the same address has been granted.
C12_Witness ==
    \E t \in Tasks, i \in DOMAIN externalLocks :
        /\ task[t].pc = "lHeld"
        /\ externalLocks[i].address = task[t].key[2]
        /\ EffectiveScope(externalLocks[i].scope) # EffectiveScope(task[t].scope)

\* C16: invalidateNonce(address, scope) drops the cache entry of that key,
\* held or not, so that the next getNextNonce of the key returns the chain's
\* pending count; the entries of the other keys, the locks and the leases
\* stay as they are.
C16_InvalidateDropsOneEntry ==
    [][\A s \in ScopeInputs, a \in AddrInputs, k \in Keys :
          (InvalidateNonce(s, a) /\ k = buildKey(s, a)) =>
              /\ nonceState'[k] = NoNonce
              /\ NextNonceValue(k, pending[k])' = pending[k]
              /\ \A other \in Keys \ {k} : nonceState'[other] = nonceState[other]
              /\ UNCHANGED <<walletLocks, chainPrev, resolved, externalLocks>>]_vars

\* The entry of a key is gone while a lease on that key is held, and another
\* key still has its entry.
C16_Witness ==
    \E i \in DOMAIN externalLocks, other \in Keys :
        /\ nonceState[externalLocks[i].key] = NoNonce
        /\ other # externalLocks[i].key
        /\ nonceState[other] # NoNonce

(* ------------------------ properties of SpecLive ----------------------- *)
WaitPcs == {"iWait", "lWait"}

\* C13: when every holder of a wallet lock releases it (by its handle, by
\* /nonce/release or by the reaper), every acquire that waits is granted.
C13_EveryWaiterGranted ==
    \A t \in Requests : (task[t].pc \in WaitPcs) ~> (task[t].pc \notin WaitPcs)

\* A request that arrived behind another one holds the lock.
C13_Witness ==
    \E t \in Requests :
        /\ task[t].pc \in {"iHeld", "lHeld"}
        /\ task[t].tk >= 2
        /\ chainPrev[task[t].key][task[t].tk] = ThenPromise(task[t].tk - 1)

(* --------------------- release by lockId and by handle ----------------- *)
\* C19: a release by lockId takes the lease out of the map, so that a second
\* release of the same lockId finds nothing; a release of a lockId that is not
\* in the map, one released before or one never handed out, changes neither
\* the lock queue nor the leases nor the nonce cache.
C19_ReleaseByLockIdOnce ==
    [][\A id \in LockIds, sent \in BOOLEAN :
          /\ ReleaseNonceByLockId(id, sent) =>
                \A i \in DOMAIN externalLocks' : externalLocks'[i].lockId # id
          /\ ReleaseUnknownLockId(id, sent) =>
                UNCHANGED <<walletLocks, chainPrev, resolved, externalLocks,
                            nonceState>>]_vars

\* A lease was released by its lockId and the next request holds the lock.
C19_Witness ==
    \E k \in Keys, t \in Tasks :
        /\ lastOp[k].kind \in {"commit", "rollback"}
        /\ \A i \in DOMAIN externalLocks : externalLocks[i].key # k
        /\ task[t].key = k
        /\ task[t].pc \in {"iHeld", "lHeld"}

\* C20: a second call of the release handle that acquireWalletLock returned
\* changes nothing, not even when the next acquire has been granted.
C20_ReleaseHandleOnce ==
    [][\A t \in Tasks :
          InternalReleaseAgain(t) =>
              UNCHANGED <<walletLocks, chainPrev, resolved, grantOrder>>]_vars

\* A request has released its lock and is over, and the request behind it
\* holds the lock.
C20_Witness ==
    \E t, u \in Tasks :
        /\ task[t].pc = "done"
        /\ task[t].op = "internal"
        /\ task[u].pc \in HeldPcs
        /\ task[u].key = task[t].key
        /\ task[u].tk > 1
        /\ <<task[t].key, task[u].tk - 1>> \in task[t].tks

(* ------------------- getNextNonce, call by call ------------------------ *)
NonceCalls == {"get", "acquire"}

\* C14: a getNextNonce that finds the chain's pending count q above the cached
\* next nonce (or finds no entry) returns q and stores q + 1.
C14_PendingDominates ==
    \A k \in Keys :
        (lastOp[k].kind \in NonceCalls /\ lastOp[k].p > lastOp[k].cached) =>
            /\ lastOp[k].nonce = lastOp[k].p
            /\ nonceState[k].nextNonce = lastOp[k].p + 1

\* getNextNonce found an entry below the pending count.
C14_Witness ==
    \E k \in Keys : /\ lastOp[k].kind \in NonceCalls
                    /\ lastOp[k].cached >= 0
                    /\ lastOp[k].p > lastOp[k].cached

\* C15: a getNextNonce that finds the cached next nonce MAX_NONCE_GAP or more
\* above the pending count, or an entry MAX_NONCE_CACHE_AGE_MS old or older,
\* returns the pending count and stores the pending count plus one.
C15_StaleCacheReset ==
    \A k \in Keys :
        (/\ lastOp[k].kind \in NonceCalls
         /\ lastOp[k].cached >= 0
         /\ \/ lastOp[k].cached - lastOp[k].p >= MAX_NONCE_GAP
            \/ lastOp[k].old) =>
            /\ lastOp[k].nonce = lastOp[k].p
            /\ nonceState[k].nextNonce = lastOp[k].p + 1

\* A run went through the reset at MAX_NONCE_GAP, and a later call found the
\* entry, ahead of the chain, too old.
C15_Witness ==
    \E k \in Keys :
        /\ Len(run[k].vals) > MAX_NONCE_GAP
        /\ run[k].vals[MAX_NONCE_GAP + 1] = run[k].p
        /\ lastOp[k].kind \in NonceCalls
        /\ lastOp[k].old
        /\ lastOp[k].cached > lastOp[k].p

(* ------------------- a lease and what follows it ----------------------- *)
\* The entry of k was written less than MAX_NONCE_CACHE_AGE_MS ago.
Fresh(k) == now - nonceState[k].updatedAt < MAX_NONCE_CACHE_AGE_MS

\* C17 (as the specification states it): a lease got nonce n and was released
\* with transactionSent = false; with the pending count unchanged the next
\* getNextNonce of the wallet returns n.
C17_RollbackRoundTrip ==
    \A k \in Keys :
        (lastOp[k].kind = "rollback" /\ lastOp[k].p = pending[k]) =>
            NextNonceValue(k, pending[k]) = lastOp[k].nonce

\* C17 (amended): it returns n when n is the pending count, or when it comes
\* less than MAX_NONCE_CACHE_AGE_MS after the release.
C17_RollbackRoundTripFresh ==
    \A k \in Keys :
        (/\ lastOp[k].kind = "rollback"
         /\ lastOp[k].p = pending[k]
         /\ lastOp[k].nonce = lastOp[k].p \/ Fresh(k)) =>
            NextNonceValue(k, pending[k]) = lastOp[k].nonce

\* A lease whose nonce was ahead of the pending count has just been released
\* with transactionSent = false.
C17_Witness ==
    \E k \in Keys : /\ lastOp[k].kind = "rollback"
                    /\ lastOp[k].p = pending[k]
                    /\ lastOp[k].nonce > lastOp[k].p
                    /\ Fresh(k)

\* C18 (as the specification states it): a lease got the pending count p as
\* its nonce and was released with transactionSent = true; with the pending
\* count unchanged the next getNextNonce of the wallet returns p + 1.
C18_CommitKeepsCache ==
    \A k \in Keys :
        (/\ lastOp[k].kind = "commit"
         /\ lastOp[k].p = pending[k]
         /\ lastOp[k].nonce = lastOp[k].p) =>
            NextNonceValue(k, pending[k]) = lastOp[k].p + 1

\* C18 (amended): the release leaves the entry as the acquire wrote it, and the
\* next getNextNonce returns p + 1 when it comes less than
\* MAX_NONCE_CACHE_AGE_MS after the acquire.
C18_CommitKeepsCacheFresh ==
    \A k \in Keys :
        lastOp[k].kind = "commit" =>
            /\ nonceState[k] # NoNonce
            /\ nonceState[k].nextNonce = lastOp[k].nonce + 1
            /\ (/\ lastOp[k].p = pending[k]
                /\ lastOp[k].nonce = lastOp[k].p
                /\ Fresh(k)) =>
                   NextNonceValue(k, pending[k]) = lastOp[k].p + 1

\* A lease that got the pending count has just been released with
\* transactionSent = true.
C18_Witness ==
    \E k \in Keys : /\ lastOp[k].kind = "commit"
                    /\ lastOp[k].p = pending[k]
                    /\ lastOp[k].nonce = lastOp[k].p
                    /\ Fresh(k)

(* ------------------------ GET /nonce/status ---------------------------- *)
\* The lockIds that /nonce/acquire handed out.
IssuedLeases ==
    UNION {task[t].tks : t \in {u \in Tasks : /\ task[u].op = "lease"
                                              /\ task[u].pc = "done"
                                              /\ task[u].result = "ok"}}

\* Those whose lock has not been released, by /nonce/release or by the reaper.
OpenLeases == {id \in IssuedLeases : id[2] \notin resolved[id[1]]}

\* C21: getExternalLocksStatus lists exactly the leases that were handed out
\* and neither released nor reaped, each once and with its own fields,
\* isExpired being true exactly when expiresAt <= now; activeLocks is the
\* number of listed leases that are not expired; the list is empty when there
\* is no such lease.
C21_StatusListsOpenLeases ==
    LET st == getExternalLocksStatus IN
    /\ {st.locks[i].lockId : i \in DOMAIN st.locks} = OpenLeases
    /\ Len(st.locks) = Cardinality(OpenLeases)
    /\ \A i \in DOMAIN st.locks :
          /\ st.locks[i].isExpired <=> (st.locks[i].expiresAt <= now)
          /\ \E j \in DOMAIN externalLocks :
                /\ externalLocks[j].lockId = st.locks[i].lockId
                /\ externalLocks[j].nonce = st.locks[i].nonce
                /\ externalLocks[j].expiresAt = st.locks[i].expiresAt
                /\ externalLocks[j].address = st.locks[i].address
                /\ externalLocks[j].scope = st.locks[i].scope
    /\ st.activeLocks = Cardinality({i \in DOMAIN st.locks :
                                        st.locks[i].expiresAt > now})
    /\ OpenLeases = {} => st.locks = <<>>

\* Two leases are listed: one past its TTL and not yet reaped, one not expired.
C21_Witness ==
    LET st == getExternalLocksStatus IN
    /\ Len(st.locks) = 2
    /\ st.activeLocks = 1
    /\ \E i \in DOMAIN st.locks : st.locks[i].isExpired

(* -------------------- execute-quote, step by step ---------------------- *)
\* The step ends the execute-quote request t.
QuoteEnds(t) == task[t].op = "quote" /\ task[t].pc # "done" /\ task'[t].pc = "done"

\* Every lock the request t acquired is released after the step.
ReleasedAll(t) == \A tk \in task[t].tks : tk[2] \in resolved'[tk[1]]

\* C22: an execute-quote that ends CONFIRMED has removed its quote from the
\* quote cache; one that ends otherwise (pending, reverted, any error) leaves
\* the quote cache as it was.
C22_QuoteDeletedOnlyWhenConfirmed ==
    [][\A t \in Tasks :
          QuoteEnds(t) =>
              IF task'[t].result = "CONFIRMED"
              THEN task[t].qid \notin quoteCache'
              ELSE quoteCache' = quoteCache]_vars

\* An execute-quote ended PENDING or FAILED, and a later one of the same quote
\* ended CONFIRMED and removed the quote.
C22_Witness ==
    \E t, u \in Tasks :
        /\ task[t].op = "quote" /\ task[t].result = "CONFIRMED"
        /\ task[u].op = "quote" /\ task[u].result \in {"PENDING", "FAILED"}
        /\ task[u].qid = task[t].qid
        /\ task[t].qid \notin quoteCache
        /\ \A a \in task[u].tks, b \in task[t].tks : a[2] < b[2]

\* C23: an execute-quote whose quote id is not in the cache fails at once:
\* it acquires no wallet lock, gets no nonce and submits nothing; lock
\* registry, nonce cache and chain are as before.
C23_MissingQuoteTouchesNothing ==
    [][\A t \in Tasks, n \in SwapNetworks, a \in AddrInputs, q \in QuoteIds :
          StartQuoteMissing(t, n, a, q) =>
              /\ q \notin quoteCache
              /\ task'[t].pc = "done"
              /\ task'[t].result = "NOT_FOUND"
              /\ task'[t].tks = {}
              /\ UNCHANGED <<walletLocks, chainPrev, resolved, grantOrder,
                             nonceState, pending, externalLocks>>]_vars

\* An execute-quote found its quote gone.
C23_Witness ==
    \E t \in Tasks : /\ task[t].op = "quote"
                     /\ task[t].result = "NOT_FOUND"
                     /\ task[t].tks = {}
                     /\ task[t].qid \notin quoteCache

C25_TimeoutReturnsPending ==
    [][\A t \in Tasks :
          QuoteSwapReturns(t, "timeout") =>
              /\ task[t].pc = "qSwapConfirm"
              /\ task'[t].result = "PENDING"
              /\ ReleasedAll(t)
              /\ quoteCache' = quoteCache]_vars

\* An execute-quote ended PENDING: it holds no lock, its transaction is with
\* the node, and its quote is still cached.
C25_Witness ==
    \E t \in Tasks : /\ task[t].op = "quote"
                     /\ task[t].result = "PENDING"
                     /\ \A tk \in task[t].tks : tk[2] \in resolved[tk[1]]
                     /\ pending[task[t].key] > 0
                     /\ task[t].qid \in quoteCache

\* C26: an execute-quote that sent an approval submits its swap only after the
\* approval's receipt came with status 1; when the receipt does not come or
\* has another status, the request ends with an error, submits nothing more
\* and holds no lock.
C26_SwapAfterConfirmedApproval ==
    [][\A t \in Tasks :
          /\ (QuoteSwapSent(t) /\ task[t].nonce0 >= 0) =>
                 task[t].approval = "confirmed"
          /\ QuoteApproveNotConfirmed(t) =>
                 /\ task'[t].pc = "done"
                 /\ task'[t].result = "ERROR"
                 /\ pending' = pending
                 /\ ReleasedAll(t)]_vars

\* The swap of a request was submitted after its approval was confirmed.
C26_Witness ==
    \E t \in Tasks : /\ task[t].pc = "qSwapConfirm"
                     /\ task[t].nonce0 >= 0
                     /\ task[t].nonce > task[t].nonce0
                     /\ task[t].approval = "confirmed"

\* C27: with a hardware wallet and a short or expired Permit2 allowance,
\* execute-quote answers badRequest: no auto-approval is started, no lock is
\* taken, no nonce is handed out and nothing is submitted.
C27_HardwareWalletNoAutoApprove ==
    [][\A t \in Tasks :
          /\ QuoteAllowanceRequired(t) =>
                 /\ task'[t].result = "BAD_REQUEST"
                 /\ task'[t].tks = {}
                 /\ UNCHANGED <<walletLocks, chainPrev, resolved, grantOrder,
                                nonceState, pending>>
          /\ task[t].hw => ~QuoteApproveStart(t)]_vars

\* An execute-quote of a hardware wallet ended with the badRequest.
C27_Witness ==
    \E t \in Tasks : /\ task[t].op = "quote"
                     /\ task[t].result = "BAD_REQUEST"
                     /\ task[t].tks = {}

(* ----------------------- properties of SpecClmm ------------------------ *)
\* C28 (as the specification states it): when the swap of the Uniswap route
\* was submitted and its receipt does not come within the wait, the request
\* returns PENDING.
C28_ClmmTimeoutReturnsPending ==
    [][\A t \in Tasks : ClmmNoReceipt(t) => task'[t].result = "PENDING"]_vars

\* Request u of the Uniswap route is in flight for the address and on the
\* network of request t.
SameWalletAndNetwork(u, t) ==
    /\ u # t
    /\ task[u].op = "clmm"
    /\ task[u].pc \notin {"idle", "done"}
    /\ task[u].key = task[t].key

\* C29 (as the specification states it): an execute-swap of the Uniswap route
\* waits only for requests of its own address and network.
C29_ClmmNetworksIndependent ==
    \A t \in Tasks :
        (/\ task[t].op = "clmm"
         /\ task[t].pc = "cWait"
         /\ \A u \in Tasks : ~SameWalletAndNetwork(u, t))
            => CanGrant(clmmKey(task[t].key[2]), task[t].tk0)

\* C30: when the balance of the input token is below the required amount, the
\* Uniswap route answers badRequest, submits no swap and releases its lock.
C30_ShortBalanceNoSwap ==
    [][\A t \in Tasks :
          ClmmBalanceShort(t) =>
              /\ task'[t].pc = "done"
              /\ task'[t].result = "BAD_REQUEST"
              /\ task[t].nonce = -1
              /\ pending' = pending
              /\ ReleasedAll(t)]_vars

\* An execute-swap ended with the badRequest of the balance check and holds
\* no lock.
C30_Witness ==
    \E t \in Tasks : /\ task[t].op = "clmm"
                     /\ task[t].result = "BAD_REQUEST"
                     /\ \A tk \in task[t].tks : tk[2] \in resolved[tk[1]]

(* ------------------- nonce manager: further properties ------------------ *)
\* C36: getNextNonce never returns less than the pending count it read in the
\* call: not when it merges with the cache, not when it resets a stale entry,
\* not on the first call after a rollback or an invalidate.
C36_NeverBelowPending ==
    \A k \in Keys :
        /\ lastOp[k].kind \in NonceCalls => lastOp[k].nonce >= lastOp[k].p
        /\ \A q \in 0..MaxPending + 1 : NextNonceValue(k, q) >= q

\* getNextNonce found the entry a rollback left behind below the pending
\* count and handed out the pending count.
C36_Witness ==
    \E k \in Keys : /\ lastOp[k].kind \in NonceCalls
                    /\ lastOp[k].cached >= 0
                    /\ lastOp[k].cached < lastOp[k].p
                    /\ lastOp[k].nonce = lastOp[k].p
                    /\ nonceState[k].nextNonce > lastOp[k].p

\* C37: the lease table holds at most one lease per key, every lease in it
\* belongs to the holder of its key's wallet lock, and a lease that was handed
\* out is in the table exactly as long as its lock is not released.
C37_LeaseOfLockHolder ==
    /\ \A i, j \in DOMAIN externalLocks :
          externalLocks[i].key = externalLocks[j].key => i = j
    /\ \A i \in DOMAIN externalLocks :
          /\ externalLocks[i].release \in Holders(externalLocks[i].key)
          /\ Holders(externalLocks[i].key) = {externalLocks[i].release}
    /\ {externalLocks[i].lockId : i \in DOMAIN externalLocks} = OpenLeases

\* The lease of a key was reaped and the lease in the table is the one of the
\* next holder.
C37_Witness ==
    \E i \in DOMAIN externalLocks :
        /\ externalLocks[i].release >= 2
        /\ externalLocks[i].release \in Holders(externalLocks[i].key)
        /\ <<externalLocks[i].key, 1>> \in reaped

\* C38: releaseNonceByLockId with the lockId of a reaped lease finds no lease
\* (it returns false): it releases no lock, removes no lease and leaves the
\* nonce cache as it is, whatever transactionSent says.
C38_LateReleaseAfterReaper ==
    [][\A id \in reaped, sent \in BOOLEAN :
          /\ ~ReleaseNonceByLockId(id, sent)
          /\ IndexOfLock(id) = {}
          /\ ReleaseUnknownLockId(id, sent) =>
                UNCHANGED <<walletLocks, resolved, externalLocks, nonceState>>]_vars

\* A lease was reaped and another request holds the lock of its key.
C38_Witness ==
    \E id \in reaped, t \in Tasks :
        /\ task[t].key = id[1]
        /\ task[t].tk > id[2]
        /\ task[t].tk \in Holders(id[1])

\* C39: cleanupExpiredLocks releases and removes exactly the leases with
\* expiresAt <= now, their number being the number it returns, and leaves
\* every other lease, its wallet lock and the nonce cache of its key as they
\* are.
C39_CleanupFrame ==
    [][CleanupExpiredLocks =>
          LET expired == {i \in DOMAIN externalLocks :
                             externalLocks[i].expiresAt <= now}
          IN  /\ externalLocks' = SelectSeq(externalLocks,
                                            LAMBDA l : l.expiresAt > now)
              /\ \A i \in expired :
                    externalLocks[i].release
                        \in resolved'[externalLocks[i].key]
              /\ Cardinality(reaped' \ reaped) = Cardinality(expired)
              /\ Len(externalLocks) - Len(externalLocks') = Cardinality(expired)
              /\ \A i \in DOMAIN externalLocks \ expired :
                    LET k == externalLocks[i].key IN
                    /\ resolved'[k] = resolved[k]
                    /\ walletLocks'[k] = walletLocks[k]
                    /\ nonceState'[k] = nonceState[k]]_vars

\* The reaper has removed a lease and the table holds a lease of another key
\* that is not expired.
C39_Witness ==
    \E id \in reaped, i \in DOMAIN externalLocks :
        /\ externalLocks[i].key # id[1]
        /\ externalLocks[i].expiresAt > now
        /\ nonceState[externalLocks[i].key] # NoNonce

\* C40 (as the specification states it): a key whose lock was released with no
\* acquire queued behind it has no entry in walletLocks.
C40_IdleKeyLeavesNoEntry ==
    \A k \in LockKeys :
        (\A i \in 1..Len(chainPrev[k]) : i \in resolved[k])
            => walletLocks[k] = NoEntry

(* ---------------------- properties of SpecRaydium ---------------------- *)
\* C31 (as the specification states it): the transaction of a Raydium
\* execute-swap request is built for the request's own wallet as owner.
C31_BuiltForOwnWallet ==
    \A r \in Requests :
        swap[r].txOwner # NoOwner => swap[r].txOwner = swap[r].wallet

\* C32 (as the specification states it): an execute-swap of the AMM endpoint
\* whose pool is a CLMM pool runs the CLMM executeSwap once and never the AMM
\* executeSwap, and submits at most one transaction.
C32_ClmmPoolHandledOnce ==
    \A r \in Requests :
        (/\ swap[r].endpoint = "amm"
         /\ isValidClmm(ProgramOf(swap[r].pool))
         /\ swap[r].pc \notin {"idle", "route"})
            => /\ swap[r].clmmRuns = 1
               /\ swap[r].ammRuns = 0
               /\ swap[r].sent <= 1

\* C33 (as the specification states it): a request that failed with a
\* validation error (unknown token, missing pool) is answered with 400 or
\* 404, never with 500.
C33_ValidationKeepsClass ==
    \A r \in Requests :
        (swap[r].pc = "done" /\ swap[r].error.statusCode \in {400, 404})
            => swap[r].reply.statusCode \in {400, 404}

\* C34 (as the specification states it): the slippage given to the route
\* computation of the CLMM quote is the effective slippagePct over 100, and
\* is not zero when the effective slippagePct is above zero.
C34_SlippageIsFraction ==
    \A r \in Requests :
        swap[r].slippage # NoSlippage =>
            /\ swap[r].slippage * 100 = swap[r].slippagePct
            /\ swap[r].slippagePct > 0 => swap[r].slippage > 0

(* ----------------------- properties of SpecExpiry ---------------------- *)
\* C35 (as the specification states it): when execute-quote sends the swap
\* transaction, the quote it executes has not expired.
C35_NoExpiredQuoteSubmitted ==
    [][\A t \in Requests :
          QuoteSwapSent(t) => now < QuoteExpiresAt(task[t].qid)]_vars

====
